---- MODULE Spec2Model ----
(***************************************************************************)
(* Reveal / dissolve animation engine of the "Rencontres" tab              *)
(* (src/app/page.tsx, component Home).                                     *)
(*                                                                         *)
(* State: the React state and refs of the palette engine, the fetches and  *)
(* image loads in flight, and the reveal loops that have a frame callback  *)
(* registered with requestAnimationFrame.  One action per event handler    *)
(* or callback.  Optional values (T | null) are sequences of length <= 1:  *)
(* <<>> is null / absent, <<v>> is the value v.                            *)
(*                                                                         *)
(* Arithmetic: the source computes Math.floor((currentIndex / n) * total)  *)
(* in IEEE doubles: the quotient is rounded to 53 binary digits, then the  *)
(* product is.  FloorOfScaled computes it that way, on numbers kept as     *)
(* digit sequences; FloorDiv is the exact floor of a quotient of integers. *)
(***************************************************************************)
EXTENDS Integers, Sequences, FiniteSets, TLC

\* ------------------------------------------------------------------ bounds
\* canvas width and height (800 x 800 in the source, scaled down)
CanvasWidth == 3
CanvasHeight == 1
\* lower limit of the batch size (2000 in the source, scaled down)
MinDotsPerFrame == 2
\* number of frames the batch size aims at (200 in the source, scaled down)
TargetFrames == 2
\* number of the 8 colour keys a visitor toggles in the model
NumColors == 2
\* number of generation requests issued in one behaviour
MaxRequests == 2
\* canvases the initializer is run on by itself: widths 0..MaxGridWidth, heights
\* 0..MaxGridHeight, at most MaxGridCells cells, MaxInitCalls calls on each
MaxGridWidth == 3
MaxGridHeight == 2
MaxGridCells == 6
MaxInitCalls == 2
\* totals the counter of a full-size reveal is run with: 0..MaxCounterTotal and ScenarioTotal
MaxCounterTotal == 60
\* dots.length of the reveal whose batches are run cell by cell: 0..MaxBatchCells
MaxBatchCells == 10

\* ------------------------------------------------------------ vocabulary
ColorKeys == <<"bleu", "rouge", "vert", "jaune", "orange", "marron", "gris", "violet">>
Colors == {ColorKeys[i] : i \in 1..NumColors}
\* type TabKey: the values the type allows for activeTab
TabKey == {"monochromes", "monochromesbis", "rencontres", "rencontrescrop", "spectrum",
           "galerie"}

\* Tabs with a fault: the tab bar has a button for every TabKey
TabsOfEveryKey == TabKey

\* the tab bar: one button for each of these
Tabs == {"monochromes", "rencontres", "galerie"}
Modes == {"nuages", "brumes"}

\* values of the generation response
\* {count, total_available}: total_available absent, zero, positive, negative
ResponseData ==
  { [count |-> 500, total_available |-> <<>>],
    [count |-> 0, total_available |-> <<>>],
    [count |-> 500, total_available |-> <<0>>],
    [count |-> 3, total_available |-> <<5>>],
    [count |-> 3, total_available |-> <<-2>>] }
ErrorFields == {"Couleur invalide"}
RejectMessages == {"Failed to fetch"}

Min(a, b) == IF a < b THEN a ELSE b
Max(a, b) == IF a > b THEN a ELSE b

\* Math.floor(a / b) for b > 0
FloorDiv(a, b) == a \div b

\* ------------------------------------------- arithmetic in IEEE-754 doubles
\* A natural number of any size is the sequence of its digits in base 1024,
\* least significant first, without leading zeros (0 is <<>>).  A positive
\* double is [m |-> digits, s |-> k]: the value m / 2^k, where m has at most
\* 53 binary digits (or is 2^53).  The operands are machine integers below
\* 2^20 (divisor) and 2^21 (factor), so that no intermediate value overflows.
Base == 1024
BaseBits == 10
Precision == 53

RECURSIVE DigitsOf(_)
DigitsOf(v) == IF v = 0 THEN <<>> ELSE <<v % Base>> \o DigitsOf(v \div Base)

\* the value of a digit sequence that fits a machine integer
RECURSIVE ValueOf(_)
ValueOf(digits) == IF digits = <<>> THEN 0 ELSE digits[1] + Base * ValueOf(Tail(digits))

\* digits without the leading zeros
RECURSIVE Trim(_)
Trim(digits) ==
  IF digits = <<>> \/ digits[Len(digits)] # 0 THEN digits
  ELSE Trim(SubSeq(digits, 1, Len(digits) - 1))

\* the number of binary digits of a machine integer v >= 0
RECURSIVE BitLength(_)
BitLength(v) == IF v = 0 THEN 0 ELSE 1 + BitLength(v \div 2)

\* the number of binary digits of a digit sequence
BitLengthOf(digits) ==
  IF digits = <<>> THEN 0
  ELSE BaseBits * (Len(digits) - 1) + BitLength(digits[Len(digits)])

\* digits * t for a machine integer 0 <= t < 2^21
RECURSIVE MulFrom(_, _, _, _)
MulFrom(digits, i, carry, t) ==
  IF i > Len(digits) THEN DigitsOf(carry)
  ELSE LET v == digits[i] * t + carry
       IN <<v % Base>> \o MulFrom(digits, i + 1, v \div Base, t)

MulSmall(digits, t) == Trim(MulFrom(digits, 1, 0, t))

\* digits * 2^k
ShiftLeft(digits, k) ==
  IF digits = <<>> THEN <<>>
  ELSE [i \in 1..(k \div BaseBits) |-> 0] \o MulSmall(digits, 2^(k % BaseBits))

\* long division of the digits i..1 by n < 2^20, rem being the remainder of the digits above
RECURSIVE DivFrom(_, _, _, _)
DivFrom(digits, i, rem, n) ==
  IF i = 0 THEN [quot |-> <<>>, rem |-> rem]
  ELSE LET v == Base * rem + digits[i]
           lower == DivFrom(digits, i - 1, v % n, n)
       IN [quot |-> Append(lower.quot, v \div n), rem |-> lower.rem]

\* quotient and remainder of digits by n
DivSmall(digits, n) ==
  LET d == DivFrom(digits, Len(digits), 0, n) IN [quot |-> Trim(d.quot), rem |-> d.rem]

\* quotient of digits by 2^k, and whether the division is exact
ShiftRight(digits, k) ==
  LET whole == Min(k \div BaseBits, Len(digits))
      d == DivSmall(SubSeq(digits, whole + 1, Len(digits)), 2^(k % BaseBits))
  IN [quot |-> d.quot,
      exact |-> d.rem = 0 /\ \A i \in 1..whole : digits[i] = 0]

\* digits + 1
RECURSIVE Increment(_)
Increment(digits) ==
  IF digits = <<>> THEN <<1>>
  ELSE IF digits[1] < Base - 1 THEN <<digits[1] + 1>> \o Tail(digits)
  ELSE <<0>> \o Increment(Tail(digits))

IsOdd(digits) == digits # <<>> /\ digits[1] % 2 = 1

\* the double nearest to c / n, ties to even, for machine integers 0 < c, 0 < n < 2^20
DoubleDiv(c, n) ==
  LET s1 == Precision - 1 + BitLength(n) - BitLength(c)
      d1 == DivSmall(ShiftLeft(DigitsOf(c), s1), n)
      s == IF BitLengthOf(d1.quot) = Precision THEN s1 ELSE s1 + 1
      d == IF s = s1 THEN d1 ELSE DivSmall(ShiftLeft(DigitsOf(c), s), n)
      up == 2 * d.rem > n \/ (2 * d.rem = n /\ IsOdd(d.quot))
  IN [m |-> IF up THEN Increment(d.quot) ELSE d.quot, s |-> s]

\* digits / 2^k rounded to the nearest integer, ties to even, for k >= 1
RoundShift(digits, k) ==
  LET d == ShiftRight(digits, k - 1)
      q == ShiftRight(d.quot, 1).quot
      up == IsOdd(d.quot) /\ (~d.exact \/ IsOdd(q))
  IN IF up THEN Increment(q) ELSE q

\* the double nearest to r * t, ties to even, for a double r > 0 and a machine integer 0 < t < 2^21
DoubleMul(r, t) ==
  LET p == MulSmall(r.m, t)
      k == BitLengthOf(p) - Precision
  IN IF k <= 0 THEN [m |-> p, s |-> r.s]
     ELSE [m |-> RoundShift(p, k), s |-> r.s - k]

\* Math.floor of a double d > 0
DoubleFloor(d) ==
  IF d.s <= 0 THEN ValueOf(ShiftLeft(d.m, 0 - d.s))
  ELSE ValueOf(ShiftRight(d.m, d.s).quot)

\* Math.ceil of a double d > 0
DoubleCeil(d) ==
  IF d.s <= 0 THEN ValueOf(ShiftLeft(d.m, 0 - d.s))
  ELSE LET q == ShiftRight(d.m, d.s)
       IN ValueOf(q.quot) + (IF q.exact THEN 0 ELSE 1)

\* the exact floor of currentIndex * totalCount / len, for 0 <= totalCount < 2^21, 0 < len < 2^20
ExactFloorOfScaled(currentIndex, len, totalCount) ==
  ValueOf(DivSmall(MulSmall(DigitsOf(currentIndex), totalCount), len).quot)

\* Math.floor((currentIndex / len) * totalCount) in doubles, for 0 <= currentIndex, 0 < len
FloorOfScaled(currentIndex, len, totalCount) ==
  IF currentIndex = 0 \/ totalCount = 0 THEN 0
  ELSE IF totalCount > 0
       THEN DoubleFloor(DoubleMul(DoubleDiv(currentIndex, len), totalCount))
       ELSE 0 - DoubleCeil(DoubleMul(DoubleDiv(currentIndex, len), 0 - totalCount))

VARIABLES
  activeTab,              \* useState<TabKey>
  selectedPaletteColors,  \* useState<Set<ColorKey>>
  rencontresMode,         \* useState<'nuages' | 'brumes'>
  isPaletteGenerating,    \* useState(false)
  isPaletteRevealing,     \* useState(false)
  palettePreview,         \* useState<string | null>: <<>> or <<request>>
  paletteCount,           \* useState<number>
  paletteResult,          \* useState<GenerationResult | null>
  paletteError,           \* useState<string | null>
  revealProgress,         \* useState<number>: the fraction <<num, den>>
  canvas,                 \* cells of the mounted canvas covered by opaque paint
  animationRef,           \* useRef<number | null>: 0 or the loop whose frame handle it holds
  dotsRef,                \* useRef<{x, y}[]>
  fetches,                \* generation requests awaiting their response
  images,                 \* off-canvas images whose onload is pending
  loops,                  \* reveal closures with a registered frame callback, in registration order
  due,                    \* frame callbacks of the running frame that have not run yet
  nextId,                 \* number of the next generation request
  done,                   \* history: the reveal loop completed by the step just taken
  lastEvent,              \* history: the handler or callback that ran last
  cancelledUpTo,          \* history: the requests numbered 1..cancelledUpTo were cancelled
  probe                   \* the arguments and results of a function run on its own (unit specifications)

vars == <<activeTab, selectedPaletteColors, rencontresMode, isPaletteGenerating,
          isPaletteRevealing, palettePreview, paletteCount, paletteResult,
          paletteError, revealProgress, canvas, animationRef, dotsRef,
          fetches, images, loops, due, nextId, done, lastEvent, cancelledUpTo,
          probe>>

\* ------------------------------------------------------ the drawing surface
\* <canvas ref={canvasRef}> is rendered only inside the rencontres frame
CanvasMounted == activeTab = "rencontres"

\* the cells of the canvas, 1 x 1 each
AllCells == {<<x, y>> : x \in 0..(CanvasWidth - 1), y \in 0..(CanvasHeight - 1)}

\* ctx.fillRect(0, 0, canvas.width, canvas.height) with fillStyle '#ffffff'
FillRect == AllCells

\* the cells of a canvas of width w and height h
CanvasCells(w, h) == {<<x, y>> : x \in 0..(w - 1), y \in 0..(h - 1)}

\* a canvas element that has just been mounted is transparent
FreshCanvas == {}

\* ------------------------------------------------------- initRevealDots
\* the nested loops that push {x, y}: y outer, x inner
GridDots(w, h) == [k \in 1..(w * h) |-> <<(k - 1) % w, (k - 1) \div w>>]

\* Swap with a fault: dots[i] = dots[j] without the exchange
SwapOverwrites(s, a, b) == [s EXCEPT ![a] = s[b]]

Swap(s, a, b) == [s EXCEPT ![a] = s[b], ![b] = s[a]]

\* RandomDraws with a fault: j = Math.floor(Math.random() * dots.length) for every i
RandomDrawsAnyIndex(n) == [1..(n - 1) -> 0..(n - 1)]

\* the draws j = Math.floor(Math.random() * (i + 1)), one for each i = n-1 .. 1
RandomDraws(n) == {js \in [1..(n - 1) -> 0..(n - 1)] : \A i \in 1..(n - 1) : js[i] <= i}

\* the draws of one shuffle of the canvas
CanvasDraws == RandomDraws(CanvasWidth * CanvasHeight)

\* for (i = dots.length - 1; i > 0; i--) swap dots[i], dots[j]   (i, j 0-based)
RECURSIVE ShuffleFrom(_, _, _)
ShuffleFrom(dots, i, js) ==
  IF i <= 0 THEN dots
  ELSE ShuffleFrom(Swap(dots, i + 1, js[i] + 1), i - 1, js)

ShuffledDots(w, h, js) == ShuffleFrom(GridDots(w, h), w * h - 1, js)

\* ----------------------------------------------------- startRevealAnimation
\* DotsPerFrameOf with a fault: Math.min in place of Math.max
DotsPerFrameOfMin(len, minDots, frames) == Min(minDots, len \div frames)

\* Math.max(minDots, Math.floor(len / frames)): 2000 and 200 in the source
DotsPerFrameOf(len, minDots, frames) == Max(minDots, len \div frames)
\* the batch size with the scaled limits
DotsPerFrame(len) == DotsPerFrameOf(len, MinDotsPerFrame, TargetFrames)

\* Math.min(currentIndex + dotsPerFrame, dots.length)
EndIndex(currentIndex, len) == Min(currentIndex + DotsPerFrame(len), len)

\* Math.floor((currentIndex / dots.length) * totalCount)
Revealed(currentIndex, len, totalCount) == FloorOfScaled(currentIndex, len, totalCount)

\* BatchCells with a fault: clearRect(dots[currentIndex]) for every i of the batch
BatchCellsFirstOnly(dots, from, to) == [k \in 1..(to - from) |-> dots[from + 1]]

\* the ctx.clearRect calls of one call of reveal(), in order: i = from .. to - 1 (0-based)
BatchCells(dots, from, to) == [k \in 1..(to - from) |-> dots[from + k]]

Range(s) == {s[k] : k \in DOMAIN s}

\* NewLoop with a fault: the closure walks the unshuffled grid, not dotsRef.current
NewLoopUnshuffled(id, totalCount) ==
  [id |-> id, dots |-> GridDots(CanvasWidth, CanvasHeight), currentIndex |-> 0,
   totalCount |-> totalCount, attached |-> TRUE, cleared |-> <<>>]

\* the closure created by startRevealAnimation(totalCount)
NewLoop(id, totalCount) ==
  [id |-> id, dots |-> dotsRef, currentIndex |-> 0, totalCount |-> totalCount,
   attached |-> TRUE, cleared |-> <<>>]

\* cancelAnimationFrame(animationRef.current): the callback behind the handle never runs
CancelAnimationFrame(ls, handle) == SelectSeq(ls, LAMBDA l : l.id # handle)

\* Reveal with a fault: the last frame does not call setIsPaletteRevealing(false)
RevealKeepsRevealing(l, st) ==
  LET len == Len(l.dots)
      endIndex == Min(l.currentIndex + DotsPerFrame(len), len)
      batch == [k \in 1..(endIndex - l.currentIndex) |-> l.dots[l.currentIndex + k]]
      l2 == [l EXCEPT !.currentIndex = endIndex, !.cleared = l.cleared \o batch]
      st2 == [st EXCEPT !.canvas = IF l.attached THEN st.canvas \ Range(batch) ELSE st.canvas,
                        !.count = (endIndex * l.totalCount) \div len,
                        !.progress = <<endIndex, len>>]
  IN IF endIndex < len
     THEN [st2 EXCEPT !.ref = l.id, !.loops = Append(st.loops, l2), !.done = <<>>]
     ELSE [st2 EXCEPT !.count = l.totalCount, !.done = <<l2>>]

\* Reveal with a fault: setRevealProgress(currentIndex / dotsPerFrame)
RevealDividesByBatch(l, st) ==
  LET len == Len(l.dots)
      endIndex == Min(l.currentIndex + DotsPerFrame(len), len)
      batch == [k \in 1..(endIndex - l.currentIndex) |-> l.dots[l.currentIndex + k]]
      l2 == [l EXCEPT !.currentIndex = endIndex, !.cleared = l.cleared \o batch]
      st2 == [st EXCEPT !.canvas = IF l.attached THEN st.canvas \ Range(batch) ELSE st.canvas,
                        !.count = (endIndex * l.totalCount) \div len,
                        !.progress = <<endIndex, DotsPerFrame(len)>>]
  IN IF endIndex < len
     THEN [st2 EXCEPT !.ref = l.id, !.loops = Append(st.loops, l2), !.done = <<>>]
     ELSE [st2 EXCEPT !.revealing = FALSE, !.count = l.totalCount, !.done = <<l2>>]

\* one call of reveal() by loop l on the frame state st
Reveal(l, st) ==
  LET len == Len(l.dots)
      endIndex == EndIndex(l.currentIndex, len)
      batch == BatchCells(l.dots, l.currentIndex, endIndex)
      l2 == [l EXCEPT !.currentIndex = endIndex, !.cleared = l.cleared \o batch]
      st2 == [st EXCEPT !.canvas = IF l.attached THEN st.canvas \ Range(batch) ELSE st.canvas,
                        !.count = Revealed(endIndex, len, l.totalCount),
                        !.progress = <<endIndex, len>>]
  IN IF endIndex < len
     THEN [st2 EXCEPT !.ref = l.id,
                      !.loops = Append(st.loops, l2),
                      !.done = <<>>]
     ELSE [st2 EXCEPT !.revealing = FALSE,
                      !.count = l.totalCount,
                      !.done = <<l2>>]

\* ------------------------------------------------- the generation response
\* DisplayCount with a fault: const displayCount = data.count
DisplayCountIgnoresTotal(data) == data.count

\* const displayCount = data.total_available || data.count
DisplayCount(data) ==
  IF data.total_available # <<>> /\ data.total_available[1] # 0
  THEN data.total_available[1]
  ELSE data.count

ZeroProgress == <<0, 1>>

\* the state of the session state machine, read off the React state:
\* Revealing while isPaletteRevealing; Initializing from handleGeneratePalette
\* (initRevealDots, then the request) until the reveal starts; Complete when a
\* preview is installed and progress is 1; Idle with no preview
Phase ==
  IF isPaletteRevealing THEN "Revealing"
  ELSE IF isPaletteGenerating THEN "Initializing"
  ELSE IF palettePreview = <<>> THEN "Idle"
  ELSE IF revealProgress[1] = revealProgress[2] THEN "Complete"
  ELSE "Initializing"

\* history record of a step: its kind, the requests whose code ran, whether it
\* repainted the whole canvas and, for a colour or mode toggle, the state of the
\* session it was taken in
Event(type, ids, repaint) ==
  [type |-> type, ids |-> ids, repaint |-> repaint,
   from |-> IF type \in {"color", "mode"} THEN Phase ELSE ""]

\* ------------------------------------------------------------------- Init
HomeInit ==
  /\ activeTab = "monochromes"
  /\ selectedPaletteColors = {}
  /\ rencontresMode = "nuages"
  /\ isPaletteGenerating = FALSE
  /\ isPaletteRevealing = FALSE
  /\ palettePreview = <<>>
  /\ paletteCount = 0
  /\ paletteResult = <<>>
  /\ paletteError = <<>>
  /\ revealProgress = ZeroProgress
  /\ canvas = FreshCanvas
  /\ animationRef = 0
  /\ dotsRef = <<>>
  /\ fetches = {}
  /\ images = {}
  /\ loops = <<>>
  /\ due = <<>>
  /\ nextId = 1
  /\ done = <<>>
  /\ lastEvent = Event("init", {}, FALSE)
  /\ cancelledUpTo = 0

Init == HomeInit /\ probe = <<>>

\* a handler or a network callback is a task of its own: it never runs in the
\* middle of an animation frame
BetweenFrames == due = <<>>

\* ----------------------------------------------------------------- tabs
\* onClick={() => setActiveTab(t)}: the rencontres frame and its canvas are
\* mounted with the tab and unmounted without it; a loop keeps the context of
\* the canvas it was started on
SetActiveTab(t) ==
  /\ BetweenFrames
  /\ t # activeTab
  /\ activeTab' = t
  /\ canvas' = IF t = "rencontres" \/ activeTab = "rencontres" THEN FreshCanvas ELSE canvas
  /\ loops' = IF activeTab = "rencontres"
              THEN [k \in DOMAIN loops |-> [loops[k] EXCEPT !.attached = FALSE]]
              ELSE loops
  /\ lastEvent' = Event("tab", {}, FALSE)
  /\ done' = <<>>
  /\ UNCHANGED <<probe, due, cancelledUpTo, selectedPaletteColors, rencontresMode, isPaletteGenerating,
                 isPaletteRevealing, palettePreview, paletteCount, paletteResult,
                 paletteError, revealProgress, animationRef, dotsRef, fetches,
                 images, nextId>>

\* ------------------------------------------------------ togglePaletteColor
\* the colour buttons: disabled={isPaletteGenerating || isPaletteRevealing}
ColorButtonsEnabled ==
  /\ activeTab = "rencontres"
  /\ ~(isPaletteGenerating \/ isPaletteRevealing)

ToggledSet(prev, color) == IF color \in prev THEN prev \ {color} ELSE prev \cup {color}

\* TogglePaletteColor with a fault: the preview is not cleared when the colours change
TogglePaletteColorKeepsPreview(color) ==
  /\ BetweenFrames
  /\ ColorButtonsEnabled
  /\ selectedPaletteColors' = ToggledSet(selectedPaletteColors, color)
  /\ lastEvent' = Event("color", {}, FALSE)
  /\ cancelledUpTo' = nextId - 1
  /\ done' = <<>>
  /\ UNCHANGED <<probe, due, activeTab, rencontresMode, isPaletteGenerating,
                 isPaletteRevealing, palettePreview, paletteResult, paletteCount,
                 revealProgress, canvas, paletteError, animationRef, dotsRef,
                 fetches, images, loops, nextId>>

TogglePaletteColor(color) ==
  /\ BetweenFrames
  /\ ColorButtonsEnabled
  /\ IF palettePreview # <<>>
     THEN /\ palettePreview' = <<>>
          /\ paletteResult' = <<>>
          /\ paletteCount' = 0
          /\ revealProgress' = ZeroProgress
          /\ canvas' = IF CanvasMounted THEN FillRect ELSE canvas
     ELSE UNCHANGED <<palettePreview, paletteResult, paletteCount, revealProgress, canvas>>
  /\ selectedPaletteColors' = ToggledSet(selectedPaletteColors, color)
  /\ lastEvent' = Event("color", {}, palettePreview # <<>> /\ CanvasMounted)
  /\ cancelledUpTo' = nextId - 1
  /\ done' = <<>>
  /\ UNCHANGED <<probe, due, activeTab, rencontresMode, isPaletteGenerating, isPaletteRevealing,
                 paletteError, animationRef, dotsRef, fetches, images, loops,
                 nextId>>

\* ------------------------------------------------- the nuages / brumes toggle
SetRencontresMode(m) ==
  /\ BetweenFrames
  /\ activeTab = "rencontres"
  /\ rencontresMode # m
  /\ rencontresMode' = m
  /\ palettePreview' = <<>>
  /\ paletteResult' = <<>>
  /\ paletteCount' = 0
  /\ revealProgress' = ZeroProgress
  /\ lastEvent' = Event("mode", {}, FALSE)
  /\ cancelledUpTo' = nextId - 1
  /\ done' = <<>>
  /\ UNCHANGED <<probe, due, activeTab, selectedPaletteColors, isPaletteGenerating,
                 isPaletteRevealing, paletteError, canvas, animationRef, dotsRef,
                 fetches, images, loops, nextId>>

\* --------------------------------------------------- handleGeneratePalette
\* TooFewColors with a fault: selectedPaletteColors.size < 1
TooFewColorsBelowOne(selected) == Cardinality(selected) < 1

\* selectedPaletteColors.size < 2: the early return of handleGeneratePalette and
\* the first term of the Generer button's disabled flag
TooFewColors(selected) == Cardinality(selected) < 2

\* GenerateButtonEnabled with a fault: disabled lacks isPaletteGenerating
GenerateButtonIgnoresGenerating ==
  /\ activeTab = "rencontres"
  /\ palettePreview = <<>>
  /\ ~(TooFewColors(selectedPaletteColors) \/ isPaletteRevealing)

\* GenerateButtonEnabled with a fault: the button is rendered with a preview displayed
GenerateButtonAlwaysRendered ==
  /\ activeTab = "rencontres"
  /\ ~(TooFewColors(selectedPaletteColors) \/ isPaletteGenerating \/ isPaletteRevealing)

\* the Generer button: rendered when !palettePreview,
\* disabled={selectedPaletteColors.size < 2 || isPaletteGenerating || isPaletteRevealing}
GenerateButtonEnabled ==
  /\ activeTab = "rencontres"
  /\ palettePreview = <<>>
  /\ ~(TooFewColors(selectedPaletteColors) \/ isPaletteGenerating \/ isPaletteRevealing)

\* the request sent by fetch(endpoint, {colors, full: false})
Request(id) == [id |-> id, colors |-> selectedPaletteColors, mode |-> rencontresMode]

\* handleGeneratePalette from the line after its early return up to its first await
GeneratePalette(js) ==
  /\ ~TooFewColors(selectedPaletteColors)
  /\ loops' = IF animationRef # 0 THEN CancelAnimationFrame(loops, animationRef) ELSE loops
  /\ isPaletteGenerating' = TRUE
  /\ paletteError' = <<>>
  /\ paletteResult' = <<>>
  /\ palettePreview' = <<>>
  /\ paletteCount' = 0
  /\ revealProgress' = ZeroProgress
  /\ IF CanvasMounted
     THEN /\ dotsRef' = ShuffledDots(CanvasWidth, CanvasHeight, js)
          /\ canvas' = FillRect
     ELSE UNCHANGED <<dotsRef, canvas>>
  /\ fetches' = fetches \cup {Request(nextId)}
  /\ nextId' = nextId + 1
  /\ lastEvent' = Event("generate", {nextId}, CanvasMounted)
  /\ cancelledUpTo' = nextId - 1
  /\ done' = <<>>
  /\ UNCHANGED <<due, activeTab, selectedPaletteColors, rencontresMode, isPaletteRevealing,
                 animationRef, images>>

\* a click on the Generer button
HandleGeneratePalette(js) ==
  /\ BetweenFrames
  /\ GenerateButtonEnabled
  /\ nextId <= MaxRequests
  /\ GeneratePalette(js)
  /\ UNCHANGED probe

\* the response parsed, without an error field: lines 882-895
FetchSuccess(f, data) ==
  /\ BetweenFrames
  /\ f \in fetches
  /\ fetches' = fetches \ {f}
  /\ palettePreview' = <<f>>
  /\ paletteCount' = DisplayCount(data)
  /\ paletteResult' = <<data>>
  /\ isPaletteGenerating' = FALSE
  /\ images' = images \cup {[id |-> f.id, displayCount |-> DisplayCount(data)]}
  /\ lastEvent' = Event("response", {f.id}, FALSE)
  /\ done' = <<>>
  /\ UNCHANGED <<probe, due, cancelledUpTo, activeTab, selectedPaletteColors, rencontresMode, isPaletteRevealing,
                 paletteError, revealProgress, canvas, animationRef, dotsRef, loops,
                 nextId>>

\* the response parsed, 'error' in data: lines 876-880
FetchErrorField(f, e) ==
  /\ BetweenFrames
  /\ f \in fetches
  /\ fetches' = fetches \ {f}
  /\ paletteError' = <<e>>
  /\ isPaletteGenerating' = FALSE
  /\ lastEvent' = Event("error", {f.id}, FALSE)
  /\ done' = <<>>
  /\ UNCHANGED <<probe, due, cancelledUpTo, activeTab, selectedPaletteColors, rencontresMode, isPaletteRevealing,
                 palettePreview, paletteCount, paletteResult, revealProgress, canvas,
                 animationRef, dotsRef, images, loops, nextId>>

\* FetchRejected with a fault: the catch block does not call setIsPaletteGenerating(false)
FetchRejectedKeepsLoader(f, msg) ==
  /\ BetweenFrames
  /\ f \in fetches
  /\ fetches' = fetches \ {f}
  /\ paletteError' = <<msg>>
  /\ lastEvent' = Event("rejected", {f.id}, FALSE)
  /\ done' = <<>>
  /\ UNCHANGED <<probe, due, cancelledUpTo, activeTab, selectedPaletteColors, rencontresMode,
                 isPaletteGenerating, isPaletteRevealing, palettePreview, paletteCount,
                 paletteResult, revealProgress, canvas, animationRef, dotsRef, images,
                 loops, nextId>>

\* fetch rejected or response.json() rejected: the catch block, lines 897-900
FetchRejected(f, msg) ==
  /\ BetweenFrames
  /\ f \in fetches
  /\ fetches' = fetches \ {f}
  /\ paletteError' = <<msg>>
  /\ isPaletteGenerating' = FALSE
  /\ lastEvent' = Event("rejected", {f.id}, FALSE)
  /\ done' = <<>>
  /\ UNCHANGED <<probe, due, cancelledUpTo, activeTab, selectedPaletteColors, rencontresMode, isPaletteRevealing,
                 palettePreview, paletteCount, paletteResult, revealProgress, canvas,
                 animationRef, dotsRef, images, loops, nextId>>

\* ImageLoaded with a fault: img.onload calls initRevealDots before startRevealAnimation
ImageLoadedInitializes(img) ==
  /\ BetweenFrames
  /\ img \in images
  /\ images' = images \ {img}
  /\ IF CanvasMounted
     THEN /\ \E js \in CanvasDraws :
                dotsRef' = ShuffledDots(CanvasWidth, CanvasHeight, js)
          /\ canvas' = FillRect
          /\ isPaletteRevealing' = TRUE
          /\ animationRef' = img.id
          /\ loops' = Append(loops, [NewLoop(img.id, img.displayCount) EXCEPT !.dots = dotsRef'])
     ELSE UNCHANGED <<dotsRef, canvas, isPaletteRevealing, animationRef, loops>>
  /\ lastEvent' = Event("onload", IF CanvasMounted THEN {img.id} ELSE {}, CanvasMounted)
  /\ done' = <<>>
  /\ UNCHANGED <<probe, due, cancelledUpTo, activeTab, selectedPaletteColors, rencontresMode,
                 isPaletteGenerating, palettePreview, paletteCount, paletteResult,
                 paletteError, revealProgress, fetches, nextId>>

\* img.onload = () => startRevealAnimation(displayCount)
ImageLoaded(img) ==
  /\ BetweenFrames
  /\ img \in images
  /\ images' = images \ {img}
  /\ IF CanvasMounted
     THEN /\ isPaletteRevealing' = TRUE
          /\ animationRef' = img.id
          /\ loops' = Append(loops, NewLoop(img.id, img.displayCount))
     ELSE UNCHANGED <<isPaletteRevealing, animationRef, loops>>
  /\ lastEvent' = Event("onload", IF CanvasMounted THEN {img.id} ELSE {}, FALSE)
  /\ done' = <<>>
  /\ UNCHANGED <<probe, due, cancelledUpTo, activeTab, selectedPaletteColors, rencontresMode, isPaletteGenerating,
                 palettePreview, paletteCount, paletteResult, paletteError,
                 revealProgress, canvas, dotsRef, fetches, nextId>>

\* the image fails to load: no onerror handler is installed, onload never runs
ImageFailed(img) ==
  /\ BetweenFrames
  /\ img \in images
  /\ images' = images \ {img}
  /\ lastEvent' = Event("imgerror", {img.id}, FALSE)
  /\ done' = <<>>
  /\ UNCHANGED <<probe, due, cancelledUpTo, activeTab, selectedPaletteColors, rencontresMode, isPaletteGenerating,
                 isPaletteRevealing, palettePreview, paletteCount, paletteResult,
                 paletteError, revealProgress, canvas, animationRef, dotsRef, fetches,
                 loops, nextId>>

\* One frame callback.  In an animation frame the browser runs every callback
\* registered before the frame, in registration order, and nothing else in
\* between: the first call of a frame moves the registered callbacks to due,
\* a callback that reschedules itself is registered for the next frame.
RevealCallback ==
  LET pending == IF due # <<>> THEN due ELSE loops
      registered == IF due # <<>> THEN loops ELSE <<>>
  IN /\ pending # <<>>
     /\ LET l == Head(pending)
        IN \E st \in {Reveal(l, [canvas |-> canvas, count |-> paletteCount,
                             progress |-> revealProgress,
                             revealing |-> isPaletteRevealing, ref |-> animationRef,
                             loops |-> registered, done |-> done])} :
           /\ canvas' = st.canvas
           /\ paletteCount' = st.count
           /\ revealProgress' = st.progress
           /\ isPaletteRevealing' = st.revealing
           /\ animationRef' = st.ref
           /\ loops' = st.loops
           /\ done' = st.done
           /\ due' = Tail(pending)
           /\ lastEvent' = Event("frame", {l.id}, FALSE)
     /\ UNCHANGED <<probe, cancelledUpTo, activeTab, selectedPaletteColors, rencontresMode,
                    isPaletteGenerating, palettePreview, paletteResult, paletteError,
                    dotsRef, fetches, images, nextId>>

Next ==
  \/ \E t \in Tabs : SetActiveTab(t)
  \/ \E c \in Colors : TogglePaletteColor(c)
  \/ \E m \in Modes : SetRencontresMode(m)
  \/ \E js \in RandomDraws(CanvasWidth * CanvasHeight) : HandleGeneratePalette(js)
  \/ \E f \in fetches : \E data \in ResponseData : FetchSuccess(f, data)
  \/ \E f \in fetches : \E e \in ErrorFields : FetchErrorField(f, e)
  \/ \E f \in fetches : \E msg \in RejectMessages : FetchRejected(f, msg)
  \/ \E img \in images : ImageLoaded(img)
  \/ \E img \in images : ImageFailed(img)
  \/ RevealCallback

Spec == Init /\ [][Next]_vars

\* ----------------------------------- handleGeneratePalette called directly
\* the palette state the handler reads or writes
HandlerState ==
  <<isPaletteGenerating, isPaletteRevealing, paletteError, paletteResult,
    palettePreview, paletteCount, revealProgress, dotsRef, canvas, animationRef,
    fetches, images, loops, nextId, selectedPaletteColors, rencontresMode>>

\* states in which the handler is called: any selection on any tab, in either
\* mode, before the first request or after a request that ended with an error
GuardInit ==
  /\ activeTab \in Tabs
  /\ selectedPaletteColors \in SUBSET Colors
  /\ rencontresMode \in Modes
  /\ paletteError \in {<<>>} \cup {<<msg>> : msg \in RejectMessages}
  /\ nextId = IF paletteError = <<>> THEN 1 ELSE 2
  /\ dotsRef = IF paletteError = <<>> THEN <<>> ELSE GridDots(CanvasWidth, CanvasHeight)
  /\ canvas = IF paletteError # <<>> /\ CanvasMounted THEN FillRect ELSE FreshCanvas
  /\ isPaletteGenerating = FALSE
  /\ isPaletteRevealing = FALSE
  /\ palettePreview = <<>>
  /\ paletteCount = 0
  /\ paletteResult = <<>>
  /\ revealProgress = ZeroProgress
  /\ animationRef = 0
  /\ fetches = {}
  /\ images = {}
  /\ loops = <<>>
  /\ due = <<>>
  /\ done = <<>>
  /\ lastEvent = Event("init", {}, FALSE)
  /\ cancelledUpTo = nextId - 1
  /\ probe = [calls |-> 0, before |-> HandlerState]

\* a call of handleGeneratePalette, whatever the button shows, that takes the
\* early return: if (selectedPaletteColors.size < 2) return;
GeneratePaletteReturnsEarly ==
  /\ probe.calls = 0
  /\ TooFewColors(selectedPaletteColors)
  /\ probe' = [calls |-> probe.calls + 1, before |-> HandlerState]
  /\ UNCHANGED <<activeTab, selectedPaletteColors, rencontresMode, isPaletteGenerating,
                 isPaletteRevealing, palettePreview, paletteCount, paletteResult,
                 paletteError, revealProgress, canvas, animationRef, dotsRef,
                 fetches, images, loops, due, nextId, done, lastEvent, cancelledUpTo>>

\* a call of handleGeneratePalette, whatever the button shows, that runs on
CallGeneratePalette(js) ==
  /\ probe' = [calls |-> probe.calls + 1, before |-> HandlerState]
  /\ GeneratePalette(js)

GuardNext ==
  \/ GeneratePaletteReturnsEarly
  \/ /\ probe.calls = 0
     /\ ~TooFewColors(selectedPaletteColors)
     /\ \E js \in CanvasDraws : CallGeneratePalette(js)

SpecGuard == GuardInit /\ [][GuardNext]_vars

\* ------------------------------------------ initRevealDots run on its own
\* the canvases of the unit specification
GridSizes ==
  {wh \in (0..MaxGridWidth) \X (0..MaxGridHeight) : wh[1] * wh[2] <= MaxGridCells}

InitializerInit ==
  /\ HomeInit
  /\ probe \in {[width |-> wh[1], height |-> wh[2], calls |-> 0] : wh \in GridSizes}

\* one call of initRevealDots on a mounted canvas of probe.width x probe.height
InitRevealDots(js) ==
  /\ probe.calls < MaxInitCalls
  /\ dotsRef' = ShuffledDots(probe.width, probe.height, js)
  /\ canvas' = CanvasCells(probe.width, probe.height)
  /\ probe' = [probe EXCEPT !.calls = @ + 1]
  /\ UNCHANGED <<activeTab, selectedPaletteColors, rencontresMode, isPaletteGenerating,
                 isPaletteRevealing, palettePreview, paletteCount, paletteResult,
                 paletteError, revealProgress, animationRef, fetches, images, loops,
                 due, nextId, done, lastEvent, cancelledUpTo>>

InitializerNext ==
  \E js \in RandomDraws(probe.width * probe.height) : InitRevealDots(js)

SpecInitializer == InitializerInit /\ [][InitializerNext]_vars

\* ------------------------------------- the counter of a reveal at full size
\* The arithmetic of startRevealAnimation on the canvas of the page: 800 x 800
\* cells, in batches of Math.max(2000, Math.floor(640000 / 200)).  probe holds
\* the closure's currentIndex and totalCount and the state reveal() sets; the
\* cells a batch clears are those of Reveal and are left out here.
FullCanvasWidth == 800
FullCanvasHeight == 800
FullMinDotsPerFrame == 2000
FullTargetFrames == 200
FullLength == FullCanvasWidth * FullCanvasHeight
FullDotsPerFrame == DotsPerFrameOf(FullLength, FullMinDotsPerFrame, FullTargetFrames)

\* a displayCount of more than a million images
ScenarioTotal == 1185512
CounterTotals == 0..MaxCounterTotal \cup {ScenarioTotal}

\* the state at the call startRevealAnimation(totalCount), after setPaletteCount(totalCount)
CounterInit ==
  /\ HomeInit
  /\ probe \in {[totalCount |-> t, currentIndex |-> 0, paletteCount |-> t,
                 revealProgress |-> ZeroProgress, isPaletteRevealing |-> TRUE] :
                t \in CounterTotals}

\* one call of reveal(): lines 753-771 without the clearRect loop
RevealFrame ==
  /\ probe.isPaletteRevealing
  /\ LET endIndex == Min(probe.currentIndex + FullDotsPerFrame, FullLength)
     IN probe' = [probe EXCEPT
                    !.currentIndex = endIndex,
                    !.revealProgress = <<endIndex, FullLength>>,
                    !.paletteCount = IF endIndex < FullLength
                                     THEN Revealed(endIndex, FullLength, probe.totalCount)
                                     ELSE probe.totalCount,
                    !.isPaletteRevealing = endIndex < FullLength]
  /\ UNCHANGED <<cancelledUpTo, lastEvent, done, due, activeTab, selectedPaletteColors,
                 rencontresMode, isPaletteGenerating, isPaletteRevealing, palettePreview,
                 paletteResult, paletteError, paletteCount, revealProgress, dotsRef,
                 animationRef, canvas, fetches, images, loops, nextId>>

CounterNext == RevealFrame

SpecCounter == CounterInit /\ [][CounterNext]_vars

\* ------------------------------------------- the batches of a reveal at full size
\* The loop of startRevealAnimation over dots of any length, with the limits of
\* the source (2000 cells, 200 frames).  probe holds the closure: dots.length,
\* currentIndex, dotsPerFrame, whether reveal is registered for a frame, and the
\* number of calls of reveal so far with the cells of the last one.
CanvasSides == {0, 1, 2, 44, 45, 100, 630, 631, 632, 633, 800, 1000}
FullLengths == {w * h : w \in CanvasSides, h \in CanvasSides}

\* the closure after startRevealAnimation has returned: lines 747-750, 773-774
BatchesInit ==
  /\ HomeInit
  /\ probe \in {[len |-> n, currentIndex |-> 0,
                 dotsPerFrame |-> DotsPerFrameOf(n, FullMinDotsPerFrame, FullTargetFrames),
                 scheduled |-> TRUE, frames |-> 0, batch |-> 0] :
                n \in FullLengths}

\* RevealBatch with a fault: Math.min(currentIndex + dotsPerFrame - 1, dots.length)
RevealBatchShort ==
  /\ probe.scheduled
  /\ LET endIndex == Min(probe.currentIndex + probe.dotsPerFrame - 1, probe.len)
     IN probe' = [probe EXCEPT
                    !.currentIndex = endIndex,
                    !.batch = endIndex - probe.currentIndex,
                    !.frames = @ + 1,
                    !.scheduled = endIndex < probe.len]
  /\ UNCHANGED <<cancelledUpTo, lastEvent, done, due, activeTab, selectedPaletteColors,
                 rencontresMode, isPaletteGenerating, isPaletteRevealing, palettePreview,
                 paletteResult, paletteError, paletteCount, revealProgress, dotsRef,
                 animationRef, canvas, fetches, images, loops, nextId>>

\* one call of reveal(): the bounds of its clearRect loop and its rescheduling
RevealBatch ==
  /\ probe.scheduled
  /\ LET endIndex == Min(probe.currentIndex + probe.dotsPerFrame, probe.len)
     IN probe' = [probe EXCEPT
                    !.currentIndex = endIndex,
                    !.batch = endIndex - probe.currentIndex,
                    !.frames = @ + 1,
                    !.scheduled = endIndex < probe.len]
  /\ UNCHANGED <<cancelledUpTo, lastEvent, done, due, activeTab, selectedPaletteColors,
                 rencontresMode, isPaletteGenerating, isPaletteRevealing, palettePreview,
                 paletteResult, paletteError, paletteCount, revealProgress, dotsRef,
                 animationRef, canvas, fetches, images, loops, nextId>>

BatchesNext == RevealBatch

SpecBatches == BatchesInit /\ [][BatchesNext]_vars

\* the browser runs a registered frame callback in the next animation frame
FairBatches == SpecBatches /\ WF_vars(RevealBatch)

\* ------------------- initRevealDots and startRevealAnimation called directly
\* The two functions called on any drawing surface: the canvas is mounted or
\* not (activeTab) and getContext('2d') returns a context or null
\* (probe.context).  probe.before is the palette state before the last call.
DisplayCounts == {DisplayCount(data) : data \in ResponseData}

\* SurfaceReady with a fault: the test of the context is missing
SurfaceReadyWithoutContext == CanvasMounted

\* canvasRef.current is an element and canvas.getContext('2d') a context:
\* neither "if (!canvas) return" nor "if (!ctx) return" is taken
SurfaceReady == CanvasMounted /\ probe.context

\* states in which one of the functions is called once: on any tab, in either mode,
\* before any request or after one that ended with an error, with or without a
\* stored order
SurfaceInit ==
  /\ activeTab \in Tabs
  /\ paletteError \in {<<>>} \cup {<<msg>> : msg \in RejectMessages}
  /\ dotsRef \in {<<>>, GridDots(CanvasWidth, CanvasHeight)}
  /\ selectedPaletteColors = {}
  /\ rencontresMode \in Modes
  /\ isPaletteGenerating = FALSE
  /\ isPaletteRevealing = FALSE
  /\ palettePreview = <<>>
  /\ paletteCount = 0
  /\ paletteResult = <<>>
  /\ revealProgress = ZeroProgress
  /\ canvas = FreshCanvas
  /\ animationRef = 0
  /\ fetches = {}
  /\ images = {}
  /\ loops = <<>>
  /\ due = <<>>
  /\ nextId = 1
  /\ done = <<>>
  /\ lastEvent = Event("init", {}, FALSE)
  /\ cancelledUpTo = 0
  /\ probe \in {[context |-> c, calls |-> 0, fn |-> "", before |-> HandlerState] :
                c \in BOOLEAN}

\* a call of initRevealDots()
CallInitRevealDots(js) ==
  /\ probe' = [probe EXCEPT !.calls = @ + 1, !.fn = "initRevealDots", !.before = HandlerState]
  /\ IF SurfaceReady
     THEN /\ dotsRef' = ShuffledDots(CanvasWidth, CanvasHeight, js)
          /\ canvas' = FillRect
     ELSE UNCHANGED <<dotsRef, canvas>>
  /\ UNCHANGED <<activeTab, selectedPaletteColors, rencontresMode, isPaletteGenerating,
                 isPaletteRevealing, palettePreview, paletteCount, paletteResult,
                 paletteError, revealProgress, animationRef, fetches, images, loops,
                 due, nextId, done, lastEvent, cancelledUpTo>>

\* a call of startRevealAnimation(totalCount); the frame handle is the number of the call
CallStartRevealAnimation(totalCount) ==
  /\ probe' = [probe EXCEPT !.calls = @ + 1, !.fn = "startRevealAnimation",
                            !.before = HandlerState]
  /\ IF SurfaceReady
     THEN /\ isPaletteRevealing' = TRUE
          /\ animationRef' = probe.calls + 1
          /\ loops' = Append(loops, NewLoop(probe.calls + 1, totalCount))
     ELSE UNCHANGED <<isPaletteRevealing, animationRef, loops>>
  /\ UNCHANGED <<activeTab, selectedPaletteColors, rencontresMode, isPaletteGenerating,
                 palettePreview, paletteCount, paletteResult, paletteError,
                 revealProgress, canvas, dotsRef, fetches, images, due, nextId, done,
                 lastEvent, cancelledUpTo>>

\* one call in a behaviour
SurfaceNext ==
  /\ probe.calls = 0
  /\ \/ \E js \in CanvasDraws : CallInitRevealDots(js)
     \/ \E totalCount \in DisplayCounts : CallStartRevealAnimation(totalCount)

SpecSurface == SurfaceInit /\ [][SurfaceNext]_vars

\* ------------------------------------------ one reveal, run cell by cell
\* reveal() as the statements it executes: the frame callback is entered, each
\* iteration of its loop clears one cell, and it returns after rescheduling
\* itself or completing.  JavaScript runs a task to completion: a handler
\* (here the cancelAnimationFrame of handleGeneratePalette) is another task and
\* starts only while no callback is running.  probe holds the closure
\* (len, dotsPerFrame, currentIndex), the locals of the running call (endIndex,
\* i), the number of clearRect calls made and the state of the frame handle.

\* the closure after startRevealAnimation has returned
CellsInit ==
  /\ HomeInit
  /\ probe \in {[len |-> n, dotsPerFrame |-> DotsPerFrame(n), currentIndex |-> 0,
                 endIndex |-> 0, i |-> 0, cleared |-> 0, running |-> FALSE,
                 registered |-> TRUE, cancelled |-> FALSE] :
                n \in 0..MaxBatchCells}

\* the browser calls reveal: const endIndex = Math.min(...); let i = currentIndex
FrameCallbackEnters ==
  /\ ~probe.running
  /\ probe.registered
  /\ probe' = [probe EXCEPT
                 !.running = TRUE,
                 !.registered = FALSE,
                 !.endIndex = Min(probe.currentIndex + probe.dotsPerFrame, probe.len),
                 !.i = probe.currentIndex]
  /\ UNCHANGED <<cancelledUpTo, lastEvent, done, due, activeTab, selectedPaletteColors,
                 rencontresMode, isPaletteGenerating, isPaletteRevealing, palettePreview,
                 paletteResult, paletteError, paletteCount, revealProgress, dotsRef,
                 animationRef, canvas, fetches, images, loops, nextId>>

\* one iteration: ctx.clearRect(dots[i].x, dots[i].y, dotSize, dotSize); i++
ClearRectStep ==
  /\ probe.running
  /\ probe.i < probe.endIndex
  /\ probe' = [probe EXCEPT !.cleared = @ + 1, !.i = @ + 1]
  /\ UNCHANGED <<cancelledUpTo, lastEvent, done, due, activeTab, selectedPaletteColors,
                 rencontresMode, isPaletteGenerating, isPaletteRevealing, palettePreview,
                 paletteResult, paletteError, paletteCount, revealProgress, dotsRef,
                 animationRef, canvas, fetches, images, loops, nextId>>

\* the loop is over: currentIndex = endIndex, then requestAnimationFrame or completion
FrameCallbackReturns ==
  /\ probe.running
  /\ probe.i >= probe.endIndex
  /\ probe' = [probe EXCEPT
                 !.currentIndex = probe.endIndex,
                 !.registered = probe.endIndex < probe.len,
                 !.running = FALSE]
  /\ UNCHANGED <<cancelledUpTo, lastEvent, done, due, activeTab, selectedPaletteColors,
                 rencontresMode, isPaletteGenerating, isPaletteRevealing, palettePreview,
                 paletteResult, paletteError, paletteCount, revealProgress, dotsRef,
                 animationRef, canvas, fetches, images, loops, nextId>>

\* CancelFrame with a fault: the handler interrupts a running callback
CancelFrameAnyTime ==
  /\ ~probe.cancelled
  /\ probe' = [probe EXCEPT !.registered = FALSE, !.cancelled = TRUE]
  /\ UNCHANGED <<cancelledUpTo, lastEvent, done, due, activeTab, selectedPaletteColors,
                 rencontresMode, isPaletteGenerating, isPaletteRevealing, palettePreview,
                 paletteResult, paletteError, paletteCount, revealProgress, dotsRef,
                 animationRef, canvas, fetches, images, loops, nextId>>

\* cancelAnimationFrame(animationRef.current) in a handler: a task of its own
CancelFrame ==
  /\ ~probe.running
  /\ ~probe.cancelled
  /\ probe' = [probe EXCEPT !.registered = FALSE, !.cancelled = TRUE]
  /\ UNCHANGED <<cancelledUpTo, lastEvent, done, due, activeTab, selectedPaletteColors,
                 rencontresMode, isPaletteGenerating, isPaletteRevealing, palettePreview,
                 paletteResult, paletteError, paletteCount, revealProgress, dotsRef,
                 animationRef, canvas, fetches, images, loops, nextId>>

CellsNext ==
  \/ FrameCallbackEnters
  \/ ClearRectStep
  \/ FrameCallbackReturns
  \/ CancelFrame

SpecCells == CellsInit /\ [][CellsNext]_vars

\* ===================================================================== claims
\* every reveal closure that still has a callback: registered or due in this frame
LiveLoops == loops \o due

\* the batch size the source fixes for a reveal over n cells
BatchSize(n) ==
  IF n \div TargetFrames > MinDotsPerFrame THEN n \div TargetFrames ELSE MinDotsPerFrame

\* the step just taken is the frame callback that completed a reveal
JustCompleted == done # <<>>

\* C1: a reveal that runs to completion clears every cell of the canvas exactly
\* once, in the order of the permutation it was started with; at every frame
\* boundary the cells cleared so far are the first cursor cells of that order
\* and the cursor is a whole number of batches.
C1_EveryCellClearedOnceInOrder ==
  /\ \A k \in DOMAIN LiveLoops :
        LET l == LiveLoops[k]
        IN /\ l.cleared = SubSeq(l.dots, 1, l.currentIndex)
           /\ l.currentIndex % BatchSize(Len(l.dots)) = 0
           /\ l.currentIndex < Len(l.dots)
  /\ done # <<>> =>
        LET l == done[1]
        IN /\ l.cleared = l.dots
           /\ l.currentIndex = Len(l.dots)
           /\ \A c \in AllCells : Cardinality({i \in DOMAIN l.cleared : l.cleared[i] = c}) = 1
           /\ Len(l.cleared) = Cardinality(AllCells)

\* a reveal of more than one frame has completed over a shuffled order
C1_Witness ==
  /\ JustCompleted
  /\ Len(done[1].dots) > BatchSize(Len(done[1].dots))
  /\ done[1].dots # GridDots(CanvasWidth, CanvasHeight)
  /\ done[1].cleared = done[1].dots

\* C2: in the state reached by the frame callback that moves the cursor to
\* totalCells, paletteCount equals the targetTotal of that reveal and
\* isPaletteRevealing is false.
C2_CounterPinnedAtCompletion ==
  JustCompleted => /\ paletteCount = done[1].totalCount
                   /\ isPaletteRevealing = FALSE

\* a reveal whose intermediate counter was rounded down has completed
C2_Witness ==
  /\ JustCompleted
  /\ done[1].totalCount = 5
  /\ Len(done[1].dots) = 3
  /\ paletteCount = 5
  /\ ~isPaletteRevealing

\* the canvas is mounted and every cell of it is covered by the opaque colour
FullyCovered == CanvasMounted /\ canvas = AllCells

\* C3: at most one reveal loop has a frame callback pending, and no handler
\* repaints the whole canvas while a reveal loop is still scheduled.
C3_AtMostOneSession ==
  /\ Len(LiveLoops) <= 1
  /\ lastEvent.repaint => LiveLoops = <<>>

\* C4: no reveal code (the start of a reveal by an image-load callback, or a
\* frame callback) runs for a request that a colour toggle, a mode toggle or a
\* later generation request has cancelled.
C4_NoRevealWorkAfterCancel ==
  lastEvent.type \in {"onload", "frame"} =>
     \A id \in lastEvent.ids : id > cancelledUpTo

\* C5: a colour toggle taken while a reveal is in progress leaves no frame
\* callback pending, resets preview, result, counter and progress, leaves
\* isPaletteRevealing false and the canvas fully covered.
C5_ColorChangeCancelsReveal ==
  [][ ( /\ selectedPaletteColors' # selectedPaletteColors
        /\ \E k \in DOMAIN loops :
              0 < loops[k].currentIndex /\ loops[k].currentIndex < Len(loops[k].dots) )
      => /\ loops' = <<>>
         /\ palettePreview' = <<>>
         /\ paletteResult' = <<>>
         /\ paletteCount' = 0
         /\ revealProgress' = ZeroProgress
         /\ isPaletteRevealing' = FALSE
         /\ canvas' = AllCells ]_vars

\* C6: a toggle of the generation mode taken while a reveal loop is scheduled
\* leaves no frame callback pending, discards the session state (preview,
\* result, counter, progress, isPaletteRevealing) and leaves the canvas fully
\* covered.
C6_ModeToggleCancels ==
  [][ (rencontresMode' # rencontresMode /\ loops # <<>>)
      => /\ loops' = <<>>
         /\ palettePreview' = <<>>
         /\ paletteResult' = <<>>
         /\ paletteCount' = 0
         /\ revealProgress' = ZeroProgress
         /\ isPaletteRevealing' = FALSE
         /\ canvas' = AllCells ]_vars

\* C7: when a generation request has been initiated no frame callback is
\* pending, preview, result, error, counter and progress are empty and the
\* canvas is fully covered; afterwards no frame callback of an earlier request runs.
C7_GenerateCancelsPrevious ==
  /\ lastEvent.type = "generate" =>
        /\ LiveLoops = <<>>
        /\ palettePreview = <<>>
        /\ paletteResult = <<>>
        /\ paletteError = <<>>
        /\ paletteCount = 0
        /\ revealProgress = ZeroProgress
        /\ FullyCovered
  /\ lastEvent.type = "frame" => \A id \in lastEvent.ids : id >= nextId - 1

\* C8: a reveal is started only by the image-load callback of a request whose
\* response was installed, and only while that request is the latest one and
\* has not been cancelled.
C8_StartOnlyForCurrentRequest ==
  (lastEvent.type = "onload" /\ lastEvent.ids # {}) =>
     \A id \in lastEvent.ids :
        /\ id = nextId - 1
        /\ id > cancelledUpTo
        /\ \A f \in fetches : f.id # id
        /\ palettePreview # <<>> /\ palettePreview[1].id = id

\* the response the displayed preview came from
CurrentData == paletteResult[1]

\* targetTotal as the claim states it: total_available when present and positive
ClaimedTotal(data) ==
  IF data.total_available # <<>> /\ data.total_available[1] > 0
  THEN data.total_available[1] ELSE data.count

\* targetTotal as amended: total_available when present and not zero
AmendedTotal(data) ==
  IF data.total_available # <<>> /\ data.total_available[1] # 0
  THEN data.total_available[1] ELSE data.count

\* C9 as stated: the counter installed with the response, and the targetTotal
\* of the reveal started for it, are total_available when it is present and
\* positive and count in every other case.
C9_TargetTotalPositiveRule ==
  /\ lastEvent.type = "response" => paletteCount = ClaimedTotal(CurrentData)
  /\ \A k \in DOMAIN LiveLoops :
        (palettePreview # <<>> /\ palettePreview[1].id = LiveLoops[k].id)
           => LiveLoops[k].totalCount = ClaimedTotal(CurrentData)

\* C9 amended: they are total_available when it is present and not zero
\* (negative values included), and count when it is absent or zero.
C9_TargetTotalTruthyRule ==
  /\ lastEvent.type = "response" => paletteCount = AmendedTotal(CurrentData)
  /\ \A k \in DOMAIN LiveLoops :
        (palettePreview # <<>> /\ palettePreview[1].id = LiveLoops[k].id)
           => LiveLoops[k].totalCount = AmendedTotal(CurrentData)

\* a reveal runs for a response with count = 500 and no total_available
C9_Witness ==
  /\ loops # <<>>
  /\ palettePreview # <<>> /\ palettePreview[1].id = loops[1].id
  /\ CurrentData = [count |-> 500, total_available |-> <<>>]
  /\ loops[1].totalCount = 500

\* C10: when a request ends with an error field or a rejection, the error
\* string is the displayed error, no preview is set, and no reveal is active
\* or scheduled (so no cell is being cleared).
C10_ErrorStartsNothing ==
  lastEvent.type \in {"error", "rejected"} =>
     /\ paletteError # <<>>
     /\ paletteError[1] \in ErrorFields \cup RejectMessages
     /\ palettePreview = <<>>
     /\ isPaletteRevealing = FALSE
     /\ LiveLoops = <<>>

\* the counter line: {activeTab === 'rencontres' && (isPaletteRevealing || palettePreview) && ...}
CounterVisible == activeTab = "rencontres" /\ (isPaletteRevealing \/ palettePreview # <<>>)

\* p <= q for two fractions <<numerator, denominator>> with positive denominators
FractionLeq(p, q) == p[1] * q[2] <= q[1] * p[2]

\* C11: while the preview of one generated artwork stays installed (from the
\* response that makes its counter visible until a reset), and its targetTotal
\* is >= 0, no step lowers paletteCount or revealProgress.
C11_CounterAndProgressMonotone ==
  [][ ( /\ palettePreview # <<>>
        /\ palettePreview' = palettePreview
        /\ CounterVisible
        /\ DisplayCount(CurrentData) >= 0 )
      => /\ paletteCount' >= paletteCount
         /\ FractionLeq(revealProgress, revealProgress') ]_vars

\* C12: isPaletteRevealing is true while a reveal loop has a callback pending
\* (its cursor below totalCells), false in the state where a loop has reached
\* totalCells, and never true with no loop registered or due.
C12_IsActiveTracksReveal ==
  /\ LiveLoops # <<>> => isPaletteRevealing
  /\ JustCompleted => ~isPaletteRevealing
  /\ isPaletteRevealing => LiveLoops # <<>>

\* the transitions of the state machine as the claim lists them
ClaimedTransitions ==
  { <<"Idle", "Initializing">>, <<"Initializing", "Revealing">>,
    <<"Revealing", "Complete">>, <<"Revealing", "Idle">>,
    <<"Complete", "Initializing">> }

CancelTriggerStep == lastEvent'.type \in {"color", "mode"} /\ Phase \in {"Idle", "Complete"}

\* C14 as stated: a colour toggle or a mode toggle taken on an Idle or a
\* Complete session changes none of preview, result, counter, progress and
\* isPaletteRevealing.
C14_CancelChangesNothing ==
  [][ CancelTriggerStep
      => UNCHANGED <<palettePreview, paletteResult, paletteCount, revealProgress,
                     isPaletteRevealing>> ]_vars

\* C14 amended: such a toggle never changes isPaletteRevealing; on an Idle
\* session a colour toggle changes none of preview, result, counter, progress
\* and canvas, and a mode toggle leaves preview and result empty and counter
\* and progress at zero without painting; on a Complete session either toggle
\* discards preview, result, counter and progress, the colour toggle repaints
\* the whole canvas and the mode toggle leaves the canvas as it is.
C14_CancelOnIdleAndComplete ==
  [][ CancelTriggerStep
      => /\ isPaletteRevealing' = isPaletteRevealing
         /\ (lastEvent'.type = "color" /\ Phase = "Idle")
               => UNCHANGED <<palettePreview, paletteResult, paletteCount,
                              revealProgress, canvas>>
         /\ (lastEvent'.type = "mode" \/ Phase = "Complete")
               => /\ palettePreview' = <<>>
                  /\ paletteResult' = <<>>
                  /\ paletteCount' = 0
                  /\ revealProgress' = ZeroProgress
         /\ lastEvent'.type = "mode" => canvas' = canvas
         /\ (lastEvent'.type = "color" /\ Phase = "Complete") => canvas' = AllCells ]_vars

\* a mode toggle has discarded the preview of a Complete session
C14_Witness ==
  /\ lastEvent.type = "mode"
  /\ lastEvent.from = "Complete"
  /\ palettePreview = <<>>
  /\ paletteCount = 0
  /\ ~isPaletteRevealing

\* the elements of a sequence are pairwise distinct
Distinct(s) == \A a, b \in DOMAIN s : s[a] = s[b] => a = b

\* s enumerates the cells of a w x h canvas: w * h elements, pairwise distinct,
\* covering {(x, y) : 0 <= x < w, 0 <= y < h}
EnumeratesCanvas(s, w, h) ==
  /\ Len(s) = w * h
  /\ Distinct(s)
  /\ Range(s) = {<<x, y>> : x \in 0..(w - 1), y \in 0..(h - 1)}

\* C15: for every canvas size the row-major enumeration has exactly W * H
\* pairwise distinct cells covering the canvas, and after initRevealDots the
\* reveal order is a bijection onto the same set, whatever was drawn.
C15_OrderIsBijection ==
  /\ EnumeratesCanvas(GridDots(probe.width, probe.height), probe.width, probe.height)
  /\ probe.calls > 0 => EnumeratesCanvas(dotsRef, probe.width, probe.height)

\* the initializer has produced an order of a 3 x 2 canvas that starts with the last cell
C15_Witness ==
  /\ probe.calls > 0
  /\ probe.width = 3 /\ probe.height = 2
  /\ dotsRef[1] = <<2, 1>>
  /\ dotsRef # GridDots(3, 2)

\* C16: no request is in flight for a selection of fewer than 2 colours, and a
\* call of handleGeneratePalette made with 0 or 1 colours selected has changed
\* nothing of the palette state and has issued no fetch.
C16_NoRequestBelowTwoColors ==
  /\ \A f \in fetches : Cardinality(f.colors) >= 2
  /\ (probe.calls > 0 /\ Cardinality(selectedPaletteColors) < 2)
        => /\ HandlerState = probe.before
           /\ fetches = {}
           /\ ~isPaletteGenerating

\* the handler has been called with one colour selected while an earlier error is displayed
C16_Witness ==
  /\ probe.calls > 0
  /\ Cardinality(selectedPaletteColors) = 1
  /\ paletteError # <<>>
  /\ fetches = {}

\* the step runs the Dot-Field Initializer: it installs a reveal order or
\* covers a cell of the canvas again
InitializerRuns == dotsRef' # dotsRef \/ canvas' \ canvas # {}

\* C17 as stated: the Initializer runs at Start, in the step of the image-load
\* callback that starts the reveal, and in no other step; in particular not in
\* the step that sends the request.
C17_InitializerRunsAtStart ==
  [][ /\ (lastEvent'.type = "onload" /\ lastEvent'.ids # {})
            => EnumeratesCanvas(dotsRef', CanvasWidth, CanvasHeight) /\ canvas' = AllCells
      /\ InitializerRuns => lastEvent'.type = "onload" ]_vars

\* C17 amended: the Initializer runs once for each generation request, in the
\* handler step that sends the request: that step installs a reveal order of
\* the canvas and covers the canvas; the steps of the response, of the image
\* load and of the frames install no order and cover no cell, and a reveal
\* is started on the order that is installed at that moment.
C17_InitializerRunsAtRequest ==
  [][ /\ lastEvent'.type = "generate"
            => /\ EnumeratesCanvas(dotsRef', CanvasWidth, CanvasHeight)
               /\ canvas' = AllCells
               /\ \E f \in fetches' \ fetches : f.id = nextId
      /\ lastEvent'.type \in {"response", "error", "rejected", "onload", "imgerror", "frame"}
            => ~InitializerRuns
      /\ (lastEvent'.type = "onload" /\ lastEvent'.ids # {})
            => loops'[Len(loops')].dots = dotsRef ]_vars

\* a reveal has been started on an order installed when its request was sent
C17_Witness ==
  /\ lastEvent.type = "onload"
  /\ loops # <<>>
  /\ loops[Len(loops)].dots = dotsRef
  /\ dotsRef # GridDots(CanvasWidth, CanvasHeight)
  /\ canvas = AllCells
  /\ fetches = {}

\* the reveal loops of the request whose preview is displayed
LoopsOfPreview ==
  SelectSeq(LiveLoops, LAMBDA l : palettePreview # <<>> /\ l.id = palettePreview[1].id)

\* C18: while a preview is installed (from the response to the reset),
\* paletteCount = floor(revealProgress * targetTotal), and revealProgress is
\* currentIndex / totalCells of the reveal of that preview.
C18_CounterDerivedFromProgress ==
  palettePreview # <<>> =>
     /\ paletteCount =
           FloorDiv(revealProgress[1] * DisplayCount(CurrentData), revealProgress[2])
     /\ \A k \in DOMAIN LoopsOfPreview :
           revealProgress[1] * Len(LoopsOfPreview[k].dots)
              = LoopsOfPreview[k].currentIndex * revealProgress[2]

\* every reveal loop of the state: registered, due, or just completed
AllLoops == LiveLoops \o done

\* C20: the cursor of every reveal lies in 0..totalCells and revealProgress in
\* [0, 1] in every state, and no step lowers the cursor of a reveal.
C20_CursorAndProgressBounded ==
  /\ [](/\ \A k \in DOMAIN AllLoops :
              0 <= AllLoops[k].currentIndex /\ AllLoops[k].currentIndex <= Len(AllLoops[k].dots)
        /\ 0 <= revealProgress[1]
        /\ revealProgress[1] <= revealProgress[2])
  /\ [][ \A k \in DOMAIN LiveLoops : \A j \in DOMAIN AllLoops' :
            AllLoops'[j].id = LiveLoops[k].id
               => AllLoops'[j].currentIndex >= LiveLoops[k].currentIndex ]_vars

\* a reveal of 3 cells in batches of 2 has stopped at the last cell: the last batch was short
C20_Witness ==
  /\ JustCompleted
  /\ done[1].currentIndex = 3
  /\ Len(done[1].dots) % BatchSize(Len(done[1].dots)) # 0
  /\ revealProgress = <<3, 3>>

\* a reveal of the full canvas is between two batches
BetweenBatches == 0 < probe.currentIndex /\ probe.currentIndex < FullLength

\* C19: after each non-final batch revealProgress is cursor / totalCells and the
\* counter is the floor of cursor * targetTotal / totalCells.
C19_CounterIsFloorOfProduct ==
  BetweenBatches =>
    /\ probe.revealProgress = <<probe.currentIndex, FullLength>>
    /\ probe.paletteCount =
         ExactFloorOfScaled(probe.currentIndex, FullLength, probe.totalCount)

\* C19, the scenario: with a total of 1,185,512 on 800 x 800 cells, the cursor
\* 320,000 is the cursor after a batch and the counter is then 592,756.
C19_ScenarioAtHalf ==
  (probe.totalCount = ScenarioTotal /\ probe.currentIndex >= 320000 /\
   probe.currentIndex < 320000 + FullDotsPerFrame)
     => probe.currentIndex = 320000 /\ probe.paletteCount = 592756

\* C19, what the doubles of line 761 give: the floor of the claim or one less,
\* and the floor of the claim for the total of the scenario.
C19_CounterWithinOneOfFloor ==
  BetweenBatches =>
    LET exact == ExactFloorOfScaled(probe.currentIndex, FullLength, probe.totalCount)
    IN /\ probe.paletteCount \in {exact - 1, exact}
       /\ probe.totalCount = ScenarioTotal => probe.paletteCount = exact

\* the reveal of 1,185,512 images is half way
C19_HalfWay == probe.totalCount = ScenarioTotal /\ probe.currentIndex = 320000

\* C21: every frame processes min(B, totalCells - cursor) cells, where
\* B = max(2000, floor(totalCells / 200)) is the same for the whole reveal; a
\* reveal of 1,000,000 cells processes 5000 cells in every frame and completes
\* in exactly 200 frames.
C21_BatchIsMinOfBAndRest ==
  /\ [](/\ probe.dotsPerFrame = Max(2000, probe.len \div 200)
        /\ probe.len = 1000000 =>
              /\ probe.dotsPerFrame = 5000
              /\ probe.frames > 0 => probe.batch = 5000
              /\ probe.scheduled = (probe.frames < 200)
              /\ probe.currentIndex = 5000 * probe.frames)
  /\ [][/\ probe'.currentIndex - probe.currentIndex =
              Min(probe.dotsPerFrame, probe.len - probe.currentIndex)
         /\ probe'.batch = probe'.currentIndex - probe.currentIndex
         /\ probe'.dotsPerFrame = probe.dotsPerFrame]_vars

\* the reveal of 1,000,000 cells has completed with its 200th frame
C21_Witness ==
  /\ probe.len = 1000000
  /\ ~probe.scheduled
  /\ probe.frames = 200
  /\ probe.currentIndex = probe.len

\* the least integer that is at least a / b, for a >= 0, b > 0
CeilDiv(a, b) == (a + b - 1) \div b

\* the reveal of the unit run has made its last call of reveal()
Completed == ~probe.scheduled

\* C22: a reveal whose frames eventually run reaches cursor = totalCells after
\* exactly ceil(totalCells / B) frames, which is 200 or 201 frames for every
\* canvas resolution, and schedules no frame after completion.
C22_AboutTwoHundredFramesAlways ==
  /\ <>Completed
  /\ [](Completed =>
          /\ probe.currentIndex = probe.len
          /\ probe.frames = CeilDiv(probe.len, Max(2000, probe.len \div 200))
          /\ probe.frames \in {200, 201})
  /\ [][probe.scheduled]_vars

\* C22, amended: a reveal whose frames eventually run reaches cursor =
\* totalCells after exactly max(1, ceil(totalCells / B)) frames, which is at
\* most 201 frames for every canvas resolution, 200 or 201 frames from 398,001
\* cells on and 200 frames for the 800 x 800 canvas of the page; no frame is
\* scheduled after completion.
C22_TerminatesWithinFrameBound ==
  /\ <>Completed
  /\ [](Completed =>
          /\ probe.currentIndex = probe.len
          /\ probe.frames = Max(1, CeilDiv(probe.len, Max(2000, probe.len \div 200)))
          /\ probe.frames <= 201
          /\ probe.len >= 398001 => probe.frames \in {200, 201}
          /\ probe.len = 640000 => probe.frames = 200)
  /\ [][probe.scheduled]_vars

\* a canvas of 100 x 100 cells has been revealed in 5 frames
C22_Witness ==
  /\ Completed
  /\ probe.len = 10000
  /\ probe.frames = 5

RECURSIVE Factorial(_)
Factorial(n) == IF n <= 1 THEN 1 ELSE n * Factorial(n - 1)

\* the orders initRevealDots can store for a w x h canvas, over all the draws
ShuffleOutcomes(w, h) == {ShuffledDots(w, h, js) : js \in RandomDraws(w * h)}

\* C23: the shuffle can produce every one of the n! orderings of the n cells,
\* and each ordering by exactly one sequence of draws j: there are n! sequences
\* of draws and they give n! different orders, each an ordering of the cells.
C23_EveryOrderingByOneDrawSequence ==
  LET n == probe.width * probe.height
      orders == ShuffleOutcomes(probe.width, probe.height)
  IN /\ Cardinality(RandomDraws(n)) = Factorial(n)
     /\ Cardinality(orders) = Factorial(n)
     /\ \A o \in orders : EnumeratesCanvas(o, probe.width, probe.height)
     /\ probe.calls > 0 => dotsRef \in orders

\* the initializer has stored the reversed enumeration of a 3 x 2 canvas
C23_Witness ==
  /\ probe.calls > 0
  /\ probe.width = 3 /\ probe.height = 2
  /\ dotsRef = [k \in 1..6 |-> GridDots(3, 2)[7 - k]]

\* the step is a call of handleGeneratePalette that passed its early return
GenerateStep == nextId' = nextId + 1

\* the reveal closures the step has created
StartedLoops ==
  {l \in Range(loops') : \A k \in DOMAIN LiveLoops : LiveLoops[k].id # l.id}

\* C24: when the initializer returns with a canvas present, the stored order is
\* the newly shuffled one and every cell of the canvas is covered; nothing else
\* stores an order, and a reveal started afterwards walks the stored order from
\* its first cell.
C24_InitializerReplacesOrderAndCovers ==
  [][/\ (GenerateStep /\ CanvasMounted) =>
          /\ dotsRef' \in ShuffleOutcomes(CanvasWidth, CanvasHeight)
          /\ canvas' = AllCells
     /\ ~GenerateStep => dotsRef' = dotsRef
     /\ \A l \in StartedLoops :
          /\ l.dots = dotsRef'
          /\ l.currentIndex = 0
          /\ l.cleared = <<>>]_vars

\* after a second initialization a reveal has started on the order it stored,
\* which is not the row-major enumeration
C24_Witness ==
  /\ lastEvent.type = "onload"
  /\ nextId = 3
  /\ loops # <<>>
  /\ loops[Len(loops)].id = 2
  /\ loops[Len(loops)].dots = dotsRef
  /\ dotsRef # GridDots(CanvasWidth, CanvasHeight)

\* C25: with the drawing surface absent (canvas unmounted or no 2D context) a
\* call of the initializer or of the start of the revealer changes nothing: not
\* the stored order, not isPaletteRevealing, not the registered frame
\* callbacks or the frame handle, not the displayed error.
C25_AbsentSurfaceIsNoOp ==
  (probe.calls > 0 /\ ~(activeTab = "rencontres" /\ probe.context)) =>
    /\ HandlerState = probe.before
    /\ loops = <<>>
    /\ ~isPaletteRevealing
    /\ dotsRef \in {<<>>, GridDots(CanvasWidth, CanvasHeight)}

\* startRevealAnimation has been called on a mounted canvas without a 2D
\* context, with an order stored and an error displayed
C25_Witness ==
  /\ probe.calls > 0
  /\ probe.fn = "startRevealAnimation"
  /\ activeTab = "rencontres" /\ ~probe.context
  /\ dotsRef # <<>>
  /\ paletteError # <<>>

\* no callback is running: a handler, a response callback or a cancel can run
EventCanRun == ~probe.running

\* the cursor is at a batch boundary and every cell before it has been cleared
AtBatchBoundary ==
  /\ probe.cleared = probe.currentIndex
  /\ \/ probe.currentIndex % probe.dotsPerFrame = 0
     \/ probe.currentIndex = probe.len

\* C26: whenever another event can run, the number of cells cleared by the
\* reveal equals its cursor and the cursor is a multiple of B or totalCells; a
\* cancellation takes effect at such a boundary only, and no cell is cleared
\* after it.
C26_BatchIsAtomic ==
  /\ [](EventCanRun => AtBatchBoundary)
  /\ [](probe.cancelled => AtBatchBoundary /\ ~probe.running /\ ~probe.registered)
  /\ [][(probe.cancelled /\ probe'.cancelled) => probe'.cleared = probe.cleared]_vars

\* a reveal of 8 cells in batches of 4 has been cancelled after its first batch
C26_Witness ==
  /\ probe.cancelled
  /\ probe.len = 8
  /\ probe.currentIndex = 4
  /\ probe.cleared = 4

\* the reveal of the displayed preview has not completed: its image is loading
\* or its closure has a frame callback
PreviewRevealPending ==
  /\ palettePreview # <<>>
  /\ \/ \E img \in images : img.id = palettePreview[1].id
     \/ \E k \in DOMAIN LiveLoops : LiveLoops[k].id = palettePreview[1].id

\* the cells cleared so far by the reveal of the displayed preview
ClearedForPreview ==
  UNION {Range(LiveLoops[k].cleared) :
           k \in {j \in DOMAIN LiveLoops : LiveLoops[j].id = palettePreview[1].id}}

\* C27: from the moment a preview is set until its reveal completes, every cell
\* of the canvas that the reveal of that preview has not cleared is covered by
\* the opaque paint, tab switches included.
C27_PreviewHiddenUntilCleared ==
  (CanvasMounted /\ PreviewRevealPending) =>
     (AllCells \ canvas) \subseteq ClearedForPreview

\* C28: a preview displayed on the Rencontres tab was requested for the colours
\* and the mode that are selected now.
C28_PreviewMatchesSelection ==
  (activeTab = "rencontres" /\ palettePreview # <<>>) =>
     /\ palettePreview[1].colors = selectedPaletteColors
     /\ palettePreview[1].mode = rencontresMode

\* C29: at most one generation request awaits its response, isPaletteGenerating
\* is true while it does, and a request is issued only while isPaletteGenerating
\* and isPaletteRevealing are false and no other request is awaited.
C29_AtMostOneRequestInFlight ==
  /\ [](/\ Cardinality(fetches) <= 1
        /\ fetches # {} => isPaletteGenerating)
  /\ [][GenerateStep =>
          /\ ~isPaletteGenerating
          /\ ~isPaletteRevealing
          /\ fetches = {}
          /\ Cardinality(fetches') = 1]_vars

\* the second request is awaiting its response and the mode has just been toggled
C29_Witness ==
  /\ Cardinality(fetches) = 1
  /\ nextId = 3
  /\ lastEvent.type = "mode"

\* the requests whose fetch settles in the step
SettledRequests == fetches \ fetches'

\* C30: a request whose fetch settles, with a preview, an error field or a
\* rejection, leaves isPaletteGenerating false; a new request clears the error;
\* the loader is on only while a request is awaited, and an error is set only
\* by the latest request and displayed only while none is awaited.
C30_LoaderClearedAndErrorOfLatest ==
  /\ [](/\ isPaletteGenerating => fetches # {}
        /\ paletteError # <<>> => fetches = {} /\ ~isPaletteGenerating)
  /\ [][/\ SettledRequests # {} => ~isPaletteGenerating'
        /\ GenerateStep => paletteError' = <<>>
        /\ (paletteError' # <<>> /\ paletteError' # paletteError) =>
              \E f \in SettledRequests : f.id = nextId - 1]_vars

\* the second request has ended with an error field, which is displayed
C30_Witness ==
  /\ nextId = 3
  /\ paletteError # <<>>
  /\ lastEvent.type = "error"
  /\ lastEvent.ids = {2}
  /\ ~isPaletteGenerating

\* ------------------------------------------- the Rencontres Crop engine
\* The crop handlers next to the palette handlers, on one page whose palette
\* frame and crop frame are both rendered.  The palette engine runs on the
\* variables, on the rencontres tab; the crop state (selectedCropColors ..
\* dotsCropRef, lines 249-260) is the record probe, with the same bookkeeping
\* of requests, images and frame callbacks.  Every event is taken twice: first
\* by the crop engine, which records it in probe.event, then by the palette
\* engine with the same arguments.

\* the crop state after construction, the crop frame rendered
CropInitialState ==
  [selectedCropColors |-> {}, isCropGenerating |-> FALSE, isCropRevealing |-> FALSE,
   cropPreview |-> <<>>, cropCount |-> 0, cropResult |-> <<>>, cropError |-> <<>>,
   cropRevealProgress |-> ZeroProgress, canvas |-> FreshCanvas, mounted |-> TRUE,
   animationCropRef |-> 0, dotsCropRef |-> <<>>, fetches |-> {}, images |-> {},
   loops |-> <<>>, due |-> <<>>, nextId |-> 1, event |-> [type |-> "init", arg |-> 0]]

\* the palette engine on the rencontres tab, before any click
CropPairInit ==
  /\ activeTab = "rencontres"
  /\ selectedPaletteColors = {}
  /\ rencontresMode = "nuages"
  /\ isPaletteGenerating = FALSE
  /\ isPaletteRevealing = FALSE
  /\ palettePreview = <<>>
  /\ paletteCount = 0
  /\ paletteResult = <<>>
  /\ paletteError = <<>>
  /\ revealProgress = ZeroProgress
  /\ canvas = FreshCanvas
  /\ animationRef = 0
  /\ dotsRef = <<>>
  /\ fetches = {}
  /\ images = {}
  /\ loops = <<>>
  /\ due = <<>>
  /\ nextId = 1
  /\ done = <<>>
  /\ lastEvent = Event("init", {}, FALSE)
  /\ cancelledUpTo = 0
  /\ probe = CropInitialState

\* the crop colour buttons: disabled={isCropGenerating || isCropRevealing}
CropColorButtonsEnabled(c) == c.mounted /\ ~(c.isCropGenerating \/ c.isCropRevealing)

\* the crop Generer button: rendered when !cropPreview,
\* disabled={selectedCropColors.size < 2 || isCropGenerating || isCropRevealing}
CropGenerateButtonEnabled(c) ==
  /\ c.mounted
  /\ c.cropPreview = <<>>
  /\ ~(Cardinality(c.selectedCropColors) < 2 \/ c.isCropGenerating \/ c.isCropRevealing)

\* toggleCropColor(color)
ToggleCropColor(c, color) ==
  LET cleared == IF c.cropPreview # <<>>
                 THEN [c EXCEPT !.cropPreview = <<>>,
                                !.cropResult = <<>>,
                                !.cropCount = 0,
                                !.cropRevealProgress = ZeroProgress,
                                !.canvas = IF c.mounted THEN FillRect ELSE c.canvas]
                 ELSE c
  IN [cleared EXCEPT !.selectedCropColors =
                        IF color \in @ THEN @ \ {color} ELSE @ \cup {color}]

\* initRevealDotsCrop()
InitRevealDotsCrop(c, js) ==
  IF c.mounted
  THEN [c EXCEPT !.dotsCropRef = ShuffledDots(CanvasWidth, CanvasHeight, js),
                 !.canvas = FillRect]
  ELSE c

\* HandleGenerateCrop with a fault: initRevealDotsCrop() is not called
HandleGenerateCropWithoutInit(c, js) ==
  LET reset == [c EXCEPT !.loops = IF c.animationCropRef # 0
                                   THEN CancelAnimationFrame(@, c.animationCropRef)
                                   ELSE @,
                         !.isCropGenerating = TRUE,
                         !.cropError = <<>>,
                         !.cropResult = <<>>,
                         !.cropPreview = <<>>,
                         !.cropCount = 0,
                         !.cropRevealProgress = ZeroProgress]
  IN [reset EXCEPT !.fetches = @ \cup {[id |-> c.nextId, colors |-> c.selectedCropColors]},
                   !.nextId = @ + 1]

\* handleGenerateCrop from the line after its early return up to its first await;
\* the request is fetch('/api/generate-palette-crop', {colors})
HandleGenerateCrop(c, js) ==
  LET reset == [c EXCEPT !.loops = IF c.animationCropRef # 0
                                   THEN CancelAnimationFrame(@, c.animationCropRef)
                                   ELSE @,
                         !.isCropGenerating = TRUE,
                         !.cropError = <<>>,
                         !.cropResult = <<>>,
                         !.cropPreview = <<>>,
                         !.cropCount = 0,
                         !.cropRevealProgress = ZeroProgress]
      painted == InitRevealDotsCrop(reset, js)
  IN [painted EXCEPT !.fetches = @ \cup {[id |-> c.nextId, colors |-> c.selectedCropColors]},
                     !.nextId = @ + 1]

\* the crop response parsed, without an error field: lines 985-996
CropFetchSuccess(c, f, data) ==
  [c EXCEPT !.fetches = @ \ {f},
            !.cropPreview = <<f>>,
            !.cropCount = DisplayCount(data),
            !.cropResult = <<data>>,
            !.isCropGenerating = FALSE,
            !.images = @ \cup {[id |-> f.id, displayCount |-> DisplayCount(data)]}]

\* the crop response parsed, 'error' in data: lines 979-983
CropFetchErrorField(c, f, e) ==
  [c EXCEPT !.fetches = @ \ {f}, !.cropError = <<e>>, !.isCropGenerating = FALSE]

\* fetch rejected or response.json() rejected: the catch block, lines 998-1001
CropFetchRejected(c, f, msg) ==
  [c EXCEPT !.fetches = @ \ {f}, !.cropError = <<msg>>, !.isCropGenerating = FALSE]

\* img.onload = () => startRevealAnimationCrop(displayCount)
StartRevealAnimationCrop(c, img) ==
  LET loaded == [c EXCEPT !.images = @ \ {img}]
  IN IF c.mounted
     THEN [loaded EXCEPT !.isCropRevealing = TRUE,
                         !.animationCropRef = img.id,
                         !.loops = Append(@, [id |-> img.id, dots |-> c.dotsCropRef,
                                              currentIndex |-> 0,
                                              totalCount |-> img.displayCount,
                                              attached |-> TRUE, cleared |-> <<>>])]
     ELSE loaded

\* one call of the reveal() closure of startRevealAnimationCrop, lines 819-836:
\* the first callback of a frame moves the registered callbacks to due
RevealCrop(c) ==
  LET pending == IF c.due # <<>> THEN c.due ELSE c.loops
      registered == IF c.due # <<>> THEN c.loops ELSE <<>>
      l == Head(pending)
      len == Len(l.dots)
      endIndex == Min(l.currentIndex + Max(MinDotsPerFrame, len \div TargetFrames), len)
      batch == [k \in 1..(endIndex - l.currentIndex) |-> l.dots[l.currentIndex + k]]
      l2 == [l EXCEPT !.currentIndex = endIndex, !.cleared = @ \o batch]
      drawn == [c EXCEPT !.canvas = IF l.attached THEN @ \ Range(batch) ELSE @,
                         !.cropCount = FloorOfScaled(endIndex, len, l.totalCount),
                         !.cropRevealProgress = <<endIndex, len>>,
                         !.due = Tail(pending),
                         !.loops = registered]
  IN IF endIndex < len
     THEN [drawn EXCEPT !.animationCropRef = l.id, !.loops = Append(@, l2)]
     ELSE [drawn EXCEPT !.isCropRevealing = FALSE, !.cropCount = l.totalCount]

\* the palette variables the crop handlers must leave alone
PaletteState ==
  <<activeTab, selectedPaletteColors, rencontresMode, isPaletteGenerating,
    isPaletteRevealing, palettePreview, paletteCount, paletteResult, paletteError,
    revealProgress, canvas, animationRef, dotsRef, fetches, images, loops, due,
    nextId>>

\* it is the crop engine's turn after the palette engine has taken the last event
CropTurn == lastEvent.type # "crop"

\* the crop engine takes event e: only the crop state changes
CropTakes(e, after) ==
  /\ CropTurn
  /\ probe' = [after EXCEPT !.event = e]
  /\ lastEvent' = Event("crop", {}, FALSE)
  /\ UNCHANGED <<PaletteState, done, cancelledUpTo>>

CropToggle(color) ==
  /\ probe.due = <<>>
  /\ CropColorButtonsEnabled(probe)
  /\ CropTakes([type |-> "color", arg |-> color], ToggleCropColor(probe, color))

CropGenerate(js) ==
  /\ probe.due = <<>>
  /\ CropGenerateButtonEnabled(probe)
  /\ probe.nextId <= MaxRequests
  /\ CropTakes([type |-> "generate", arg |-> js], HandleGenerateCrop(probe, js))

CropResponse(f, data) ==
  /\ probe.due = <<>>
  /\ CropTakes([type |-> "response", arg |-> <<f.id, data>>], CropFetchSuccess(probe, f, data))

CropErrorResponse(f, e) ==
  /\ probe.due = <<>>
  /\ CropTakes([type |-> "error", arg |-> <<f.id, e>>], CropFetchErrorField(probe, f, e))

CropRejected(f, msg) ==
  /\ probe.due = <<>>
  /\ CropTakes([type |-> "rejected", arg |-> <<f.id, msg>>], CropFetchRejected(probe, f, msg))

CropImageLoaded(img) ==
  /\ probe.due = <<>>
  /\ CropTakes([type |-> "onload", arg |-> img.id], StartRevealAnimationCrop(probe, img))

CropFrame ==
  /\ probe.due # <<>> \/ probe.loops # <<>>
  /\ CropTakes([type |-> "frame", arg |-> 0], RevealCrop(probe))

\* the palette engine takes the event the crop engine has just taken
PaletteTakes ==
  /\ ~CropTurn
  /\ \/ probe.event.type = "color" /\ TogglePaletteColor(probe.event.arg)
     \/ probe.event.type = "generate" /\ HandleGeneratePalette(probe.event.arg)
     \/ /\ probe.event.type = "response"
        /\ \E f \in fetches : f.id = probe.event.arg[1] /\ FetchSuccess(f, probe.event.arg[2])
     \/ /\ probe.event.type = "error"
        /\ \E f \in fetches : f.id = probe.event.arg[1] /\ FetchErrorField(f, probe.event.arg[2])
     \/ /\ probe.event.type = "rejected"
        /\ \E f \in fetches : f.id = probe.event.arg[1] /\ FetchRejected(f, probe.event.arg[2])
     \/ /\ probe.event.type = "onload"
        /\ \E img \in images : img.id = probe.event.arg /\ ImageLoaded(img)
     \/ probe.event.type = "frame" /\ RevealCallback

\* the guard of the palette handler or callback of the recorded event
PaletteCanTake ==
  CASE probe.event.type = "color" -> BetweenFrames /\ ColorButtonsEnabled
    [] probe.event.type = "generate" ->
         BetweenFrames /\ GenerateButtonEnabled /\ nextId <= MaxRequests
    [] probe.event.type \in {"response", "error", "rejected"} ->
         BetweenFrames /\ \E f \in fetches : f.id = probe.event.arg[1]
    [] probe.event.type = "onload" ->
         BetweenFrames /\ \E img \in images : img.id = probe.event.arg
    [] probe.event.type = "frame" -> due # <<>> \/ loops # <<>>
    [] OTHER -> FALSE

CropPairNext ==
  \/ \E color \in Colors : CropToggle(color)
  \/ \E js \in CanvasDraws : CropGenerate(js)
  \/ \E f \in probe.fetches : \E data \in ResponseData : CropResponse(f, data)
  \/ \E f \in probe.fetches : \E e \in ErrorFields : CropErrorResponse(f, e)
  \/ \E f \in probe.fetches : \E msg \in RejectMessages : CropRejected(f, msg)
  \/ \E img \in probe.images : CropImageLoaded(img)
  \/ CropFrame
  \/ PaletteTakes

SpecCrop == CropPairInit /\ [][CropPairNext]_vars

\* a request without the field only the palette request has (the mode)
RequestSent(f) == [id |-> f.id, colors |-> f.colors]

\* the palette state under the names of the crop state
PaletteAsCrop ==
  [selectedCropColors |-> selectedPaletteColors,
   isCropGenerating |-> isPaletteGenerating,
   isCropRevealing |-> isPaletteRevealing,
   cropPreview |-> [k \in DOMAIN palettePreview |-> RequestSent(palettePreview[k])],
   cropCount |-> paletteCount,
   cropResult |-> paletteResult,
   cropError |-> paletteError,
   cropRevealProgress |-> revealProgress,
   canvas |-> canvas,
   mounted |-> CanvasMounted,
   animationCropRef |-> animationRef,
   dotsCropRef |-> dotsRef,
   fetches |-> {RequestSent(f) : f \in fetches},
   images |-> images,
   loops |-> loops,
   due |-> due,
   nextId |-> nextId,
   event |-> probe.event]

\* C31: the crop engine is step-for-step equivalent to the palette engine.
\* After the same sequence of toggle, generate, response, image-load and frame
\* events the crop state equals the palette state field by field (preview,
\* counter, progress, isGenerating, isRevealing, and with them the selection,
\* result, error, canvas, stored order, requests, images and frame callbacks),
\* the same buttons are enabled, an event the crop engine takes can be taken by
\* the palette engine, and a step of one engine leaves the state of the other
\* unchanged.
C31_CropEquivalentToPalette ==
  /\ [](CropTurn => /\ probe = PaletteAsCrop
                    /\ CropColorButtonsEnabled(probe) = ColorButtonsEnabled
                    /\ CropGenerateButtonEnabled(probe) = GenerateButtonEnabled)
  /\ [](~CropTurn => PaletteCanTake)
  /\ [][/\ lastEvent'.type = "crop" => UNCHANGED PaletteState
        /\ lastEvent'.type # "crop" => probe' = probe]_vars

\* both engines have completed the reveal of the same preview with the same count
C31_Witness ==
  /\ CropTurn
  /\ lastEvent.type = "frame"
  /\ done # <<>>
  /\ probe.cropPreview # <<>>
  /\ ~probe.isCropRevealing
  /\ probe.cropCount = 5
  /\ paletteCount = 5
  /\ probe.canvas = {}

\* ------------------------------------------------------------ the views
\* {activeTab === 'rencontrescrop' && ...}: the crop frame and the crop controls,
\* the only elements bound to toggleCropColor and handleGenerateCrop
CropViewRendered == activeTab = "rencontrescrop"

\* activeTab === 'monochromesbis': the view, and the condition of the effect that
\* calls startBisAnimation
BisViewRendered == activeTab = "monochromesbis"

\* {activeTab === 'spectrum' && ...}
SpectrumViewRendered == activeTab = "spectrum"

\* C32: in every reachable state activeTab is monochromes, rencontres or
\* galerie: the monochromesbis, rencontrescrop and spectrum views are never
\* rendered, so no click reaches toggleCropColor or handleGenerateCrop and the
\* effect that calls startBisAnimation never finds its condition true.
C32_OnlyThreeTabsReachable ==
  /\ activeTab \in {"monochromes", "rencontres", "galerie"}
  /\ activeTab \in TabKey
  /\ ~CropViewRendered
  /\ ~BisViewRendered
  /\ ~SpectrumViewRendered

\* the galerie tab reached from the rencontres tab with a request in flight
C32_Witness ==
  /\ activeTab = "galerie"
  /\ lastEvent.type = "tab"
  /\ fetches # {}

\* ---------------------------------------------------- the monochromes tab
\* The monochrome sequence as React runs it: a handler or a timer callback sets
\* state, the component renders, and every effect whose dependencies changed
\* runs (all cleanups first, then the bodies in the order of declaration);
\* the state the bodies set is rendered in turn, until no dependency changes.
\* probe is the monochrome state of the page and the timers and frame callbacks
\* that are pending, with the splash screen: isLoading and the two locals of
\* its effect.  monoKey and monoImageLoaded are written but read by no effect
\* and are left out.

\* COLOR_DATA[color].count
ColorCount ==
  [c \in {ColorKeys[i] : i \in 1..8} |->
     CASE c = "bleu" -> 191864 [] c = "rouge" -> 85728 [] c = "vert" -> 275536
       [] c = "jaune" -> 74268 [] c = "orange" -> 110010 [] c = "marron" -> 6315
       [] c = "gris" -> 39659 [] c = "violet" -> 189159]

\* COLOR_NAMES[color].length: ten names for every colour
WordCount(c) == 10

\* wordInterval and totalDuration of the word cloud, in ms
WordInterval == 350
CloudDuration == 4000

\* the colour buttons of the monochromes tab that are clicked
NumMonoColors == 3
MonoColors == {ColorKeys[i] : i \in 1..NumMonoColors}

\* number of frames the word cloud and the counter animation are given
CloudFrames == 3
AnimationFrames == 3

\* the prefixes fullPrefix.slice(0, n) of 'Les'
Prefixes == <<"", "L", "Le", "Les">>
PrefixLength(p) == CHOOSE n \in 0..3 : Prefixes[n + 1] = p

NoCloud == [phase |-> "none", color |-> "", frame |-> 0]

\* the state of Home after construction, before its effects have run
MonoConstructed ==
  [activeTab |-> "monochromes", selectedColor |-> "bleu", previousColor |-> <<>>,
   animatedColors |-> {}, monoAnimationStarted |-> FALSE, monoDisplayCount |-> 0,
   monoPrefix |-> "", showWordCloud |-> TRUE, showWordCloudDots |-> TRUE,
   wordCloudStarted |-> FALSE, wordCloudReady |-> FALSE, showHdImage |-> FALSE,
   cloud |-> NoCloud, reveal |-> FALSE, dezoom |-> <<>>, animation |-> <<>>,
   prefix |-> <<>>, step |-> "mount",
   isLoading |-> TRUE, bleuLoaded |-> FALSE, minTimeElapsed |-> FALSE,
   bleuImg |-> "loading", minTimer |-> TRUE]

\* the dependency arrays of the five effects
AnimationDeps(r) ==
  <<r.activeTab, r.wordCloudReady, r.monoAnimationStarted, r.selectedColor, r.animatedColors>>
CloudDeps(r) ==
  <<r.activeTab, r.showWordCloud, r.wordCloudReady, r.selectedColor, r.animatedColors>>
ColorDeps(r) == <<r.selectedColor, r.previousColor, r.animatedColors>>
TabDeps(r) == <<r.activeTab>>
PrefixDeps(r) == <<r.monoDisplayCount, r.monoPrefix, r.selectedColor>>

\* clearAllMonoTimeouts(): the animation frame, the reveal timeout and the dezoom
\* timeout; monoWordCloudTimerRef is never assigned, so that branch clears nothing
ClearAllMonoTimeouts(m) == [m EXCEPT !.animation = <<>>, !.reveal = FALSE, !.dezoom = <<>>]

\* the effect of lines 488-514, rendered state r, on the state being built m
AnimationEffect(r, m) ==
  IF /\ r.activeTab = "monochromes"
     /\ r.wordCloudReady
     /\ ~r.monoAnimationStarted
     /\ r.selectedColor \notin r.animatedColors
  THEN [m EXCEPT !.showWordCloud = FALSE,
                 !.reveal = TRUE,
                 !.dezoom = <<[color |-> r.selectedColor,
                               targetCount |-> ColorCount[r.selectedColor],
                               startCount |-> WordCount(r.selectedColor)]>>]
  ELSE m

\* CloudEffect with a fault: the test of animatedColors is missing
CloudEffectForAnimated(r, m) ==
  IF /\ r.activeTab = "monochromes"
     /\ r.showWordCloud
     /\ ~r.wordCloudReady
  THEN [m EXCEPT !.cloud = [phase |-> "delay", color |-> r.selectedColor, frame |-> 0]]
  ELSE m

\* the effect of lines 519-563: the delay timeout of the word cloud
CloudEffect(r, m) ==
  IF /\ r.activeTab = "monochromes"
     /\ r.showWordCloud
     /\ ~r.wordCloudReady
     /\ r.selectedColor \notin r.animatedColors
  THEN [m EXCEPT !.cloud = [phase |-> "delay", color |-> r.selectedColor, frame |-> 0]]
  ELSE m

\* the state set for a colour that has been animated: lines 596-604
FinalState(m, color) ==
  [m EXCEPT !.showWordCloud = FALSE, !.showWordCloudDots = FALSE,
            !.wordCloudStarted = TRUE, !.wordCloudReady = TRUE,
            !.showHdImage = TRUE, !.monoAnimationStarted = TRUE,
            !.monoDisplayCount = ColorCount[color], !.monoPrefix = "Les"]

\* the reset of lines 607-616 and 626-634
ResetState(m) ==
  [m EXCEPT !.showWordCloud = TRUE, !.showWordCloudDots = TRUE,
            !.wordCloudStarted = FALSE, !.wordCloudReady = FALSE,
            !.showHdImage = FALSE, !.monoAnimationStarted = FALSE,
            !.monoDisplayCount = 0, !.monoPrefix = ""]

\* ColorEffect with a fault: clearAllMonoTimeouts() is not called
ColorEffectWithoutClear(r, m) ==
  LET changed == r.previousColor # <<>> /\ r.previousColor # <<r.selectedColor>>
      set == IF ~changed THEN m
             ELSE IF r.selectedColor \in r.animatedColors
                  THEN FinalState(m, r.selectedColor)
                  ELSE ResetState(m)
  IN [set EXCEPT !.previousColor = <<r.selectedColor>>]

\* the effect of lines 586-620
ColorEffect(r, m) ==
  LET changed == r.previousColor # <<>> /\ r.previousColor # <<r.selectedColor>>
      set == IF ~changed THEN m
             ELSE IF r.selectedColor \in r.animatedColors
                  THEN FinalState(ClearAllMonoTimeouts(m), r.selectedColor)
                  ELSE ResetState(ClearAllMonoTimeouts(m))
  IN [set EXCEPT !.previousColor = <<r.selectedColor>>]

\* the effect of lines 623-636
TabEffect(r, m) ==
  IF r.activeTab # "monochromes" THEN ResetState(ClearAllMonoTimeouts(m)) ELSE m

\* the effect of lines 639-648: the timeout holds the prefix it will set
PrefixEffect(r, m) ==
  IF /\ r.monoDisplayCount >= ColorCount[r.selectedColor]
     /\ PrefixLength(r.monoPrefix) < 3
  THEN [m EXCEPT !.prefix = <<Prefixes[PrefixLength(r.monoPrefix) + 2]>>]
  ELSE m

\* the effects of one render: old is the state rendered before, r the state
\* rendered now; mount is the first render, where every effect runs
RunEffects(old, r, mount) ==
  LET runAnimation == mount \/ AnimationDeps(old) # AnimationDeps(r)
      runCloud == mount \/ CloudDeps(old) # CloudDeps(r)
      runColor == mount \/ ColorDeps(old) # ColorDeps(r)
      runTab == mount \/ TabDeps(old) # TabDeps(r)
      runPrefix == mount \/ PrefixDeps(old) # PrefixDeps(r)
      \* the cleanups: clearTimeout of the reveal and dezoom timeouts; clearTimeout
      \* of the delay and cancelAnimationFrame(rafId); clearTimeout of the prefix
      cleaned == [r EXCEPT !.reveal = IF runAnimation THEN FALSE ELSE @,
                           !.dezoom = IF runAnimation THEN <<>> ELSE @,
                           !.cloud = IF runCloud THEN NoCloud ELSE @,
                           !.prefix = IF runPrefix THEN <<>> ELSE @]
      m1 == IF runAnimation THEN AnimationEffect(r, cleaned) ELSE cleaned
      m2 == IF runCloud THEN CloudEffect(r, m1) ELSE m1
      m3 == IF runColor THEN ColorEffect(r, m2) ELSE m2
      m4 == IF runTab THEN TabEffect(r, m3) ELSE m3
  IN IF runPrefix THEN PrefixEffect(r, m4) ELSE m4

AllDeps(r) == <<AnimationDeps(r), CloudDeps(r), ColorDeps(r), TabDeps(r), PrefixDeps(r)>>

\* render r after old, and whatever the effects set, until nothing changes
RECURSIVE Settle(_, _)
Settle(old, r) ==
  IF AllDeps(old) = AllDeps(r) THEN r ELSE Settle(r, RunEffects(old, r, FALSE))

\* the page after its first render and the effects of the mount
MonoMounted == Settle(MonoConstructed, RunEffects(MonoConstructed, MonoConstructed, TRUE))

MonoInit ==
  /\ HomeInit
  /\ probe = MonoMounted

\* a handler or callback has set the state to next: render, run the effects
MonoCommit(step, next) ==
  /\ \E settled \in {Settle(probe, next)} :
       /\ probe' = [settled EXCEPT !.step = step]
       /\ activeTab' = settled.activeTab
  /\ UNCHANGED <<selectedPaletteColors, rencontresMode, isPaletteGenerating,
                 isPaletteRevealing, palettePreview, paletteCount, paletteResult,
                 paletteError, revealProgress, canvas, animationRef, dotsRef, fetches,
                 images, loops, due, nextId, done, lastEvent, cancelledUpTo>>

\* a click on a colour button of the monochromes tab: setSelectedColor(color);
\* a click on the selected colour sets the state it has and nothing is rendered
SetSelectedColor(color) ==
  /\ ~probe.isLoading
  /\ probe.activeTab = "monochromes"
  /\ color # probe.selectedColor
  /\ MonoCommit("color", [probe EXCEPT !.selectedColor = color])

\* a click on a tab button, the palette engine idle
SetActiveTabOfMono(t) ==
  /\ ~probe.isLoading
  /\ t # probe.activeTab
  /\ MonoCommit("tab", [probe EXCEPT !.activeTab = t])

\* the delay timeout of the word cloud, line 552
WordCloudDelay ==
  /\ probe.cloud.phase = "delay"
  /\ MonoCommit("delay", [probe EXCEPT !.wordCloudStarted = TRUE, !.cloud.phase = "tick"])

\* the word shown after elapsed ms
CurrentWordIndex(elapsed, wordCount) == Min(elapsed \div WordInterval + 1, wordCount)

\* tick(now): the frames of the word cloud, the last one at totalDuration
WordCloudTick ==
  /\ probe.cloud.phase = "tick"
  /\ LET frame == probe.cloud.frame + 1
         elapsed == (frame * CloudDuration) \div CloudFrames
         shown == [probe EXCEPT !.monoDisplayCount =
                                  CurrentWordIndex(elapsed, WordCount(probe.cloud.color))]
     IN MonoCommit("tick",
                   IF elapsed >= CloudDuration
                   THEN [shown EXCEPT !.wordCloudReady = TRUE, !.cloud = NoCloud]
                   ELSE [shown EXCEPT !.cloud.frame = frame])

\* the timeout of 400 ms: setShowHdImage(true)
RevealTimeout ==
  /\ probe.reveal
  /\ MonoCommit("reveal", [probe EXCEPT !.showHdImage = TRUE, !.reveal = FALSE])

\* DezoomTimeout with a fault: the timeout of 1500 ms may run before that of 400 ms
DezoomTimeoutUnordered ==
  /\ probe.dezoom # <<>>
  /\ MonoCommit("dezoom",
                [probe EXCEPT !.monoAnimationStarted = TRUE,
                              !.dezoom = <<>>,
                              !.animation = <<[color |-> probe.dezoom[1].color,
                                               targetCount |-> probe.dezoom[1].targetCount,
                                               startCount |-> probe.dezoom[1].startCount,
                                               frame |-> 0]>>])

\* the timeout of 1500 ms, set together with the timeout of 400 ms and run after
\* it: setMonoAnimationStarted(true), startMonoAnimation(count, wordCount, color)
DezoomTimeout ==
  /\ probe.dezoom # <<>>
  /\ ~probe.reveal
  /\ MonoCommit("dezoom",
                [probe EXCEPT !.monoAnimationStarted = TRUE,
                              !.dezoom = <<>>,
                              !.animation = <<[color |-> probe.dezoom[1].color,
                                               targetCount |-> probe.dezoom[1].targetCount,
                                               startCount |-> probe.dezoom[1].startCount,
                                               frame |-> 0]>>])

\* Math.floor(startCount + (targetCount - startCount) * (1 - (1 - progress)^3))
\* at progress = frame / frames
EasedCount(startCount, targetCount, frame, frames) ==
  startCount + FloorDiv((targetCount - startCount)
                          * (frames * frames * frames
                               - (frames - frame) * (frames - frame) * (frames - frame)),
                        frames * frames * frames)

\* animate(): one frame of the counter animation; update is false when the
\* throttle of 33 ms skips the counter of this frame (never on the first frame)
AnimateFrame(update) ==
  /\ probe.animation # <<>>
  /\ LET a == probe.animation[1]
         frame == a.frame + 1
         counted == IF update \/ a.frame = 0
                    THEN [probe EXCEPT !.monoDisplayCount =
                            EasedCount(a.startCount, a.targetCount, frame, AnimationFrames)]
                    ELSE probe
     IN MonoCommit("frame",
                   IF frame < AnimationFrames
                   THEN [counted EXCEPT !.animation = <<[a EXCEPT !.frame = frame]>>]
                   ELSE [counted EXCEPT !.monoDisplayCount = a.targetCount,
                                        !.showWordCloudDots = FALSE,
                                        !.animatedColors = @ \cup {a.color},
                                        !.animation = <<>>])

\* the timeout of 150 ms: setMonoPrefix(fullPrefix.slice(0, monoPrefix.length + 1))
PrefixTimeout ==
  /\ probe.prefix # <<>>
  /\ MonoCommit("prefix", [probe EXCEPT !.monoPrefix = probe.prefix[1], !.prefix = <<>>])

\* CheckReady with a fault: if (bleuLoaded || minTimeElapsed)
CheckReadyEither(m) ==
  IF m.bleuLoaded \/ m.minTimeElapsed THEN [m EXCEPT !.isLoading = FALSE] ELSE m

\* checkReady(): lines 375-379
CheckReady(m) ==
  IF m.bleuLoaded /\ m.minTimeElapsed THEN [m EXCEPT !.isLoading = FALSE] ELSE m

\* bleuImg.onload: lines 383-386
BleuImageLoaded ==
  /\ probe.bleuImg = "loading"
  /\ MonoCommit("bleu", CheckReady([probe EXCEPT !.bleuLoaded = TRUE, !.bleuImg = "loaded"]))

\* the image fails to load: no onerror handler is installed, onload never runs
BleuImageFailed ==
  /\ probe.bleuImg = "loading"
  /\ MonoCommit("bleuerror", [probe EXCEPT !.bleuImg = "failed"])

\* the timeout of 2000 ms: lines 396-399
MinTimeElapsed ==
  /\ probe.minTimer
  /\ MonoCommit("mintime", CheckReady([probe EXCEPT !.minTimeElapsed = TRUE, !.minTimer = FALSE]))

\* the timers and frame callbacks of the page
MonoTimers ==
  \/ MinTimeElapsed
  \/ WordCloudDelay
  \/ WordCloudTick
  \/ RevealTimeout
  \/ DezoomTimeout
  \/ \E update \in BOOLEAN : AnimateFrame(update)
  \/ PrefixTimeout

MonoNext ==
  \/ \E color \in MonoColors : SetSelectedColor(color)
  \/ \E t \in Tabs : SetActiveTabOfMono(t)
  \/ BleuImageLoaded
  \/ BleuImageFailed
  \/ MinTimeElapsed
  \/ WordCloudDelay
  \/ WordCloudTick
  \/ RevealTimeout
  \/ DezoomTimeout
  \/ \E update \in BOOLEAN : AnimateFrame(update)
  \/ PrefixTimeout

SpecMono == MonoInit /\ [][MonoNext]_vars

\* a timeout that is due runs and a requested frame is drawn; the user may stop
\* clicking at any time
FairMono == SpecMono /\ WF_vars(MonoTimers)

\* the state the sequence ends in for color
MonoFinal(color) ==
  /\ probe.monoDisplayCount = ColorCount[color]
  /\ probe.showHdImage
  /\ probe.monoPrefix = "Les"

\* C33: on the monochromes tab, if the selected colour is left unchanged the
\* counter eventually equals the colour's pre-generated count, with the HD
\* image visible and the prefix 'Les' complete.
C33_EventuallyFinalCount ==
  \A color \in MonoColors :
    <>[](probe.activeTab = "monochromes" /\ probe.selectedColor = color)
      => <>[]MonoFinal(color)

\* the colours for which a word-cloud timer, a dezoom timeout or a counter
\* animation is pending
ColorsInProgress ==
  (IF probe.cloud.phase # "none" THEN {probe.cloud.color} ELSE {})
    \cup {probe.dezoom[k].color : k \in DOMAIN probe.dezoom}
    \cup {probe.animation[k].color : k \in DOMAIN probe.animation}

\* the step is the last frame of the counter animation of color, taken with
\* color selected on the monochromes tab
AnimationCompletes(color) ==
  /\ probe'.step = "frame"
  /\ probe.animation # <<>>
  /\ probe.animation[1].color = color
  /\ probe.animation[1].frame + 1 = AnimationFrames
  /\ probe.monoAnimationStarted
  /\ probe.selectedColor = color
  /\ probe.activeTab = "monochromes"
  /\ probe'.monoDisplayCount = ColorCount[color]

\* C34: a colour enters animatedColors only in the last frame of its counter
\* animation, while it is the selected colour on the monochromes tab; no
\* word-cloud timer, dezoom timeout or counter animation exists for a colour
\* that is in animatedColors; animatedColors never shrinks.
C34_AnimatedOnceAndForAll ==
  /\ [][\A color \in probe'.animatedColors \ probe.animatedColors :
          AnimationCompletes(color)]_vars
  /\ [](ColorsInProgress \cap probe.animatedColors = {})
  /\ [][probe.animatedColors \subseteq probe'.animatedColors]_vars

\* a second colour has just completed its animation and the first one is
\* selected again later on
C34_Witness ==
  /\ Cardinality(probe.animatedColors) = 2
  /\ probe.selectedColor \in probe.animatedColors
  /\ probe.step = "color"
  /\ MonoFinal(probe.selectedColor)

\* nothing of the monochrome sequence is pending
NothingPending ==
  /\ probe.cloud = NoCloud
  /\ ~probe.reveal
  /\ probe.dezoom = <<>>
  /\ probe.animation = <<>>
  /\ probe.prefix = <<>>

\* the step changes the selected colour
ColorChanges == probe'.selectedColor # probe.selectedColor

\* C35: when the selected colour changes to a colour of animatedColors, every
\* pending timer and frame is cancelled and the state is the final one (counter
\* = the colour's count, HD image shown, word cloud and dots hidden, prefix
\* 'Les'); when it changes to a colour not yet animated, the state is the
\* initial one (counter 0, empty prefix, word cloud shown, HD image hidden) and
\* the only timer pending is the word-cloud delay of the new colour.
C35_ColorChangeJumpsOrResets ==
  [][ColorChanges =>
       IF probe'.selectedColor \in probe.animatedColors
       THEN /\ probe'.monoDisplayCount = ColorCount[probe'.selectedColor]
            /\ probe'.showHdImage
            /\ ~probe'.showWordCloud
            /\ ~probe'.showWordCloudDots
            /\ probe'.monoPrefix = "Les"
            /\ probe'.cloud = NoCloud
            /\ ~probe'.reveal
            /\ probe'.dezoom = <<>>
            /\ probe'.animation = <<>>
            /\ probe'.prefix = <<>>
       ELSE /\ probe'.monoDisplayCount = 0
            /\ probe'.monoPrefix = ""
            /\ probe'.showWordCloud
            /\ ~probe'.showHdImage
            /\ probe'.cloud = [phase |-> "delay", color |-> probe'.selectedColor, frame |-> 0]
            /\ ~probe'.reveal
            /\ probe'.dezoom = <<>>
            /\ probe'.animation = <<>>
            /\ probe'.prefix = <<>>]_vars

\* the colour has just been changed to the one animated colour: the final state
\* with nothing pending
C35_Witness ==
  /\ probe.step = "color"
  /\ probe.selectedColor \in probe.animatedColors
  /\ MonoFinal(probe.selectedColor)
  /\ NothingPending
  /\ Cardinality(probe.animatedColors) = 1

\* the timers and frames pending once the colour or the tab has changed: none
\* but the word-cloud delay of the colour now selected
OnlyFreshDelayPending(m) ==
  /\ m.cloud \in {NoCloud, [phase |-> "delay", color |-> m.selectedColor, frame |-> 0]}
  /\ ~m.reveal
  /\ m.dezoom = <<>>
  /\ m.animation = <<>>
  /\ m.prefix = <<>>

\* C36: the monochrome sequence is ordered.  The HD image is visible only
\* with the word cloud finished and hidden, and the reveal timeout runs only
\* then; the counter animation has started only with the HD image visible,
\* and the dezoom timeout runs only then; the counter holds the colour's final
\* count only with the counter animation started, and a frame sets it only
\* then; a colour change or a tab change leaves no earlier step pending.
C36_SequenceIsOrdered ==
  /\ [](probe.showHdImage => probe.wordCloudReady /\ ~probe.showWordCloud)
  /\ [](probe.monoAnimationStarted \/ probe.animation # <<>> => probe.showHdImage)
  /\ [](probe.monoDisplayCount = ColorCount[probe.selectedColor]
          => probe.monoAnimationStarted)
  /\ [][/\ probe'.step = "reveal" => probe.wordCloudReady /\ ~probe.showWordCloud
        /\ probe'.step = "dezoom" => probe.showHdImage
        /\ probe'.step = "frame" => probe.monoAnimationStarted /\ probe.showHdImage
        /\ probe'.step = "tab" \/ ColorChanges => OnlyFreshDelayPending(probe')]_vars

\* the counter animation is half-way: the word cloud is hidden, the HD image
\* visible and the counter between the number of words and the final count
C36_Witness ==
  /\ probe.step = "frame"
  /\ probe.animation # <<>>
  /\ probe.showHdImage
  /\ ~probe.showWordCloud
  /\ probe.monoDisplayCount > WordCount(probe.selectedColor)
  /\ probe.monoDisplayCount < ColorCount[probe.selectedColor]

\* C37: the splash screen is dismissed only when both the bleu image has
\* loaded and the minimum timer of 2000 ms has fired, in whichever order: it is
\* dismissed by the later of the two callbacks, and once dismissed it never
\* reappears.
C37_SplashDismissedByBoth ==
  /\ [](~probe.isLoading => /\ probe.bleuLoaded /\ probe.bleuImg = "loaded"
                            /\ probe.minTimeElapsed /\ ~probe.minTimer)
  /\ [][probe.isLoading /\ ~probe'.isLoading
          => /\ probe'.step \in {"bleu", "mintime"}
             /\ probe'.step = "bleu" => probe.minTimeElapsed /\ ~probe.bleuLoaded
             /\ probe'.step = "mintime" => probe.bleuLoaded /\ ~probe.minTimeElapsed]_vars
  /\ [][~probe.isLoading => ~probe'.isLoading]_vars

\* the image loaded after the timer had fired, and its onload dismissed the splash
C37_Witness ==
  /\ probe.step = "bleu"
  /\ ~probe.isLoading
  /\ probe.minTimeElapsed

\* ------------------------------------------------ the generation endpoints
\* POST of the palette route (src/unnamed/part_000) and of the spectrum route.
\* probe is one request: its parsed body, the subprocess, the promise the
\* handler awaits and the responses returned.  A string is the sequence of its
\* characters; a JSON value is a record [type, chars, items].

\* VALID_COLORS
VALID_COLORS ==
  << <<"b", "l", "e", "u">>, <<"r", "o", "u", "g", "e">>, <<"v", "e", "r", "t">>,
     <<"j", "a", "u", "n", "e">>, <<"o", "r", "a", "n", "g", "e">>,
     <<"m", "a", "r", "r", "o", "n">>, <<"g", "r", "i", "s">>,
     <<"v", "i", "o", "l", "e", "t">> >>

UpperLetters == <<"A", "B", "C", "D", "E", "F", "G", "H", "I", "J", "K", "L", "M",
                  "N", "O", "P", "Q", "R", "S", "T", "U", "V", "W", "X", "Y", "Z">>
LowerLetters == <<"a", "b", "c", "d", "e", "f", "g", "h", "i", "j", "k", "l", "m",
                  "n", "o", "p", "q", "r", "s", "t", "u", "v", "w", "x", "y", "z">>

\* String.prototype.toLowerCase, on the letters A-Z
ToLowerCase(chars) ==
  [k \in DOMAIN chars |->
     IF \E n \in DOMAIN UpperLetters : UpperLetters[n] = chars[k]
     THEN LowerLetters[CHOOSE n \in DOMAIN UpperLetters : UpperLetters[n] = chars[k]]
     ELSE chars[k]]

\* VALID_COLORS.includes(s)
IsValidColor(chars) == \E n \in DOMAIN VALID_COLORS : VALID_COLORS[n] = chars

JsonString(chars) == [type |-> "string", chars |-> chars, items |-> <<>>]
JsonNumber(digits) == [type |-> "number", chars |-> digits, items |-> <<>>]
JsonArray(items) == [type |-> "array", chars |-> <<>>, items |-> items]
JsonNull == [type |-> "null", chars |-> <<>>, items |-> <<>>]
JsonObject == [type |-> "object", chars |-> <<>>, items |-> <<>>]
Undefined == [type |-> "undefined", chars |-> <<>>, items |-> <<>>]

\* length of the arrays of colours that are enumerated in full
MaxArrayLength == 2
\* length of the texts the subprocess writes to stdout
MaxOutputLength == 2

\* elements of a colours array: 'bleu', 'Bleu', 'ROUGE', 'rose', 5, null
ColorElements ==
  { JsonString(<<"b", "l", "e", "u">>), JsonString(<<"B", "l", "e", "u">>),
    JsonString(<<"R", "O", "U", "G", "E">>), JsonString(<<"r", "o", "s", "e">>),
    JsonNumber(<<"5">>), JsonNull }

\* the eight valid names, and the eight with one more
EightColors == [k \in 1..8 |-> JsonString(VALID_COLORS[k])]
NineColors == Append(EightColors, JsonString(<<"b", "l", "e", "u">>))

\* values of body.colors: absent, null, 0, 5, '', 'bleu', {}, and arrays
ColorsValues ==
  { Undefined, JsonNull, JsonNumber(<<"0">>), JsonNumber(<<"5">>), JsonString(<<>>),
    JsonString(<<"b", "l", "e", "u">>), JsonObject }
    \cup {JsonArray(items) : items \in UNION {[1..n -> ColorElements] : n \in 0..MaxArrayLength}}
    \cup {JsonArray(EightColors), JsonArray(NineColors)}

\* request bodies: text that is not JSON, the JSON null, and objects
Bodies ==
  { [kind |-> "malformed", colors |-> Undefined, full |-> FALSE],
    [kind |-> "null", colors |-> Undefined, full |-> FALSE] }
    \cup {[kind |-> "object", colors |-> v, full |-> f] : v \in ColorsValues, f \in BOOLEAN}

\* the value is truthy
Truthy(v) ==
  CASE v.type \in {"undefined", "null"} -> FALSE
    [] v.type = "number" -> v.chars # <<"0">>
    [] v.type = "string" -> v.chars # <<>>
    [] OTHER -> TRUE

\* lines 12-26: the response returned by the validation, status 0 when it
\* returns none; color.toLowerCase() of a value that is not a string throws a
\* TypeError, which the catch block of lines 69-75 answers
Validation(colors) ==
  IF \/ ~Truthy(colors)
     \/ colors.type # "array"
     \/ Len(colors.items) < 1
     \/ Len(colors.items) > 8
  THEN [status |-> 400, error |-> "Nombre de couleurs invalide (1-8 requis)"]
  ELSE LET stops == {k \in DOMAIN colors.items :
                       \/ colors.items[k].type # "string"
                       \/ ~IsValidColor(ToLowerCase(colors.items[k].chars))}
       IN IF stops = {} THEN [status |-> 0, error |-> ""]
          ELSE LET k == CHOOSE i \in stops : \A j \in stops : i <= j
               IN IF colors.items[k].type # "string"
                  THEN [status |-> 500, error |-> "color.toLowerCase is not a function"]
                  ELSE [status |-> 400, error |-> "Couleur invalide"]

\* colors.map(c => c.toLowerCase()), joined with ',' in the source
ColorsArg(colors) == [k \in DOMAIN colors.items |-> ToLowerCase(colors.items[k].chars)]

\* characters written to stdout
OutputChars == {"{", "}", "1", " ", "x"}
Outputs == UNION {[1..n -> OutputChars] : n \in 0..MaxOutputLength}

\* String.prototype.trim
Trimmed(chars) ==
  LET inked == {k \in DOMAIN chars : chars[k] # " "}
  IN IF inked = {} THEN <<>>
     ELSE SubSeq(chars, CHOOSE i \in inked : \A j \in inked : i <= j,
                        CHOOSE i \in inked : \A j \in inked : i >= j)

\* JSON.parse of a text of OutputChars: <<value>>, or <<>> when it throws.
\* The JSON texts over these characters are the numbers 1, 11, .. and the empty
\* object, with white space around the value and inside the braces.
JsonParse(chars) ==
  LET t == Trimmed(chars)
  IN IF t # <<>> /\ \A k \in DOMAIN t : t[k] = "1"
     THEN <<JsonNumber(t)>>
     ELSE IF /\ Len(t) >= 2
             /\ t[1] = "{"
             /\ t[Len(t)] = "}"
             /\ \A k \in 2..(Len(t) - 1) : t[k] = " "
          THEN <<JsonObject>>
          ELSE <<>>

\* exit codes of the 'close' event: 0, 1, the errno of a failed spawn, and
\* null (<<>>) for a subprocess ended by a signal
ExitCodes == {<<0>>, <<1>>, <<-2>>, <<>>}

Routes == {"palette", "spectrum"}

\* a request that has arrived; the spectrum route reads no body
RouteInit ==
  /\ HomeInit
  /\ \E route \in Routes : \E body \in Bodies :
       /\ route = "spectrum" => body.kind = "null"
       /\ probe = [route |-> route, body |-> body, stage |-> "received",
                   spawned |-> FALSE, args |-> <<>>, fullFlag |-> FALSE,
                   promise |-> [state |-> "pending", value |-> <<>>],
                   errorFired |-> FALSE, closeFired |-> FALSE, closeCode |-> <<>>,
                   stdout |-> <<>>, first |-> "", settleCalls |-> 0,
                   responses |-> <<>>]

RouteUnchanged ==
  UNCHANGED <<activeTab, selectedPaletteColors, rencontresMode, isPaletteGenerating,
              isPaletteRevealing, palettePreview, paletteCount, paletteResult,
              paletteError, revealProgress, canvas, animationRef, dotsRef, fetches,
              images, loops, due, nextId, done, lastEvent, cancelledUpTo>>

\* the catch block: lines 69-75
ErrorResponse(message) == [status |-> 500, error |-> message, json |-> <<>>]

\* spawn('python3', args): the handler now waits for the promise
Spawned(m, args, fullFlag) ==
  [m EXCEPT !.stage = "running", !.spawned = TRUE, !.args = args, !.fullFlag = fullFlag]

Responded(m, response) ==
  [m EXCEPT !.stage = "responded", !.responses = Append(@, response)]

\* POST(request) up to its first return or to the await of the promise
Post ==
  /\ probe.stage = "received"
  /\ probe' =
       IF probe.route = "spectrum" THEN Spawned(probe, <<>>, FALSE)
       ELSE IF probe.body.kind = "malformed"
            THEN Responded(probe, ErrorResponse("Unexpected token"))
       ELSE IF probe.body.kind = "null"
            THEN Responded(probe, ErrorResponse("Cannot destructure property"))
       ELSE LET v == Validation(probe.body.colors)
            IN IF v.status # 0
               THEN Responded(probe, [status |-> v.status, error |-> v.error, json |-> <<>>])
               ELSE Spawned(probe, ColorsArg(probe.body.colors), probe.body.full)
  /\ RouteUnchanged

\* SettlePromise with a fault: a promise that is settled again takes the new outcome
SettlePromiseAgain(m, state, value) ==
  LET called == [m EXCEPT !.settleCalls = @ + 1]
      settled == [called EXCEPT !.promise = [state |-> state, value |-> value]]
  IN IF state = "rejected" THEN Responded(settled, ErrorResponse(value))
     ELSE IF JsonParse(value) = <<>>
          THEN Responded(settled, ErrorResponse("Unexpected token"))
          ELSE Responded(settled, [status |-> 200, error |-> "", json |-> JsonParse(value)])

\* resolve(value) or reject(value): the first call settles the promise and the
\* handler resumes at line 66 or in the catch block; a later call does nothing
SettlePromise(m, state, value) ==
  LET called == [m EXCEPT !.settleCalls = @ + 1]
      settled == [called EXCEPT !.promise = [state |-> state, value |-> value]]
  IN IF m.promise.state # "pending" THEN called
     ELSE IF state = "rejected" THEN Responded(settled, ErrorResponse(value))
     ELSE IF JsonParse(value) = <<>>
          THEN Responded(settled, ErrorResponse("Unexpected token"))
          ELSE Responded(settled, [status |-> 200, error |-> "", json |-> JsonParse(value)])

\* python.on('error', err => reject(err))
ChildError ==
  /\ probe.spawned
  /\ ~probe.errorFired
  /\ probe' = SettlePromise([probe EXCEPT !.errorFired = TRUE,
                                          !.first = IF @ = "" THEN "error" ELSE @],
                            "rejected", <<"s", "p", "a", "w", "n">>)
  /\ RouteUnchanged

\* python.on('close', code => ...), stdout being what the data events have added up
ChildClose(code, out) ==
  /\ probe.spawned
  /\ ~probe.closeFired
  /\ LET closed == [probe EXCEPT !.closeFired = TRUE, !.closeCode = code, !.stdout = out,
                                 !.first = IF @ = "" THEN "close" ELSE @]
     IN probe' = IF code = <<0>>
                 THEN SettlePromise(closed, "resolved", out)
                 ELSE SettlePromise(closed, "rejected", <<"e", "x", "i", "t">>)
  /\ RouteUnchanged

RouteNext ==
  \/ Post
  \/ ChildError
  \/ \E code \in ExitCodes : \E out \in Outputs : ChildClose(code, out)

SpecRoute == RouteInit /\ [][RouteNext]_vars

\* colors as the claim describes an invalid value: missing, not an array, fewer
\* than 1 or more than 8 elements, or an element that is none of the 8 names
\* when compared without regard to case
InvalidColors(colors) ==
  \/ colors.type \in {"undefined", "null"}
  \/ colors.type # "array"
  \/ Len(colors.items) < 1
  \/ Len(colors.items) > 8
  \/ \E k \in DOMAIN colors.items :
       ~(/\ colors.items[k].type = "string"
         /\ \E n \in DOMAIN VALID_COLORS :
              ToLowerCase(VALID_COLORS[n]) = ToLowerCase(colors.items[k].chars))

\* C38: the palette endpoint answers status 400 with an error field and spawns
\* no subprocess whenever colors is missing, is not an array, has fewer than 1
\* or more than 8 elements, or has an element that is not a valid colour name.
C38_InvalidColorsAnswered400 ==
  /\ probe.route = "palette"
  /\ probe.body.kind = "object"
  /\ InvalidColors(probe.body.colors)
  /\ probe.stage # "received"
  => /\ ~probe.spawned
     /\ probe.responses # <<>>
     /\ probe.responses[1].status = 400
     /\ probe.responses[1].error # ""

\* the request has been answered with the generator's JSON
AnsweredWithJson(m) ==
  /\ m.responses # <<>>
  /\ m.responses[1].status = 200
  /\ m.responses[1].json # <<>>

\* the request has been answered with status 500 and an error field
AnsweredWithError(m) ==
  /\ m.responses # <<>>
  /\ m.responses[1].status = 500
  /\ m.responses[1].error # ""
  /\ m.responses[1].json = <<>>

\* C39: a generation endpoint returns the generator's JSON only when the
\* subprocess exited with code 0 and its output parsed as JSON; when the first
\* event of the subprocess is 'error', or 'close' with another code, or when
\* the output does not parse, the answer is status 500 with an error field;
\* a request is answered once, by the first event of its subprocess, whatever
\* 'error' and 'close' events follow.
C39_JsonOnlyOnCleanExit ==
  /\ [](AnsweredWithJson(probe)
          => /\ probe.closeFired
             /\ probe.closeCode = <<0>>
             /\ JsonParse(probe.stdout) # <<>>
             /\ probe.responses[1].json = JsonParse(probe.stdout))
  /\ [](probe.spawned /\ probe.first # ""
          => IF /\ probe.first = "close"
                /\ probe.closeCode = <<0>>
                /\ JsonParse(probe.stdout) # <<>>
             THEN AnsweredWithJson(probe)
             ELSE AnsweredWithError(probe))
  /\ [](Len(probe.responses) <= 1)
  /\ [](probe.spawned => Len(probe.responses) = IF probe.first = "" THEN 0 ELSE 1)
  /\ [][probe.responses # <<>> => probe'.responses = probe.responses]_vars

\* the 'error' event rejected the promise, then 'close' reported exit code 0
\* with output that parses: one answer, status 500
C39_Witness ==
  /\ probe.first = "error"
  /\ probe.closeFired
  /\ probe.closeCode = <<0>>
  /\ JsonParse(probe.stdout) # <<>>
  /\ probe.settleCalls = 2
  /\ AnsweredWithError(probe)

====
